---- MODULE Spec2Model ----
(***************************************************************************)
(* The resilience layer of homepage-clone-planner: the memory cache        *)
(* (LRUCache), the disk cache (DiskCache), the cache manager, the retry    *)
(* executor, the usage governor (ApiMonitor) and the client pipeline       *)
(* (BaseAPIClient.request).                                                *)
(*                                                                         *)
(* Every component runs on one asyncio event loop: code between two        *)
(* suspension points is one atomic step.  Acquiring a free asyncio.Lock    *)
(* does not suspend, so an operation whose body awaits nothing but its own *)
(* lock acquisition is one action.  asyncio.Lock is not reentrant: a task  *)
(* that awaits a method taking the lock it already holds is suspended      *)
(* with the lock held, and only a cancellation of the task ends the wait.  *)
(*                                                                         *)
(* Each component has its own specification: SpecLRU, SpecDisk,           *)
(* SpecDiskFault (the disk cache with damaged blobs and values pickle      *)
(* cannot write), SpecGov (the monitor's calls without save_data),         *)
(* SpecGovSave (recording, saving, reading the statistics and              *)
(* restarting), SpecCM (the cache manager over both caches), SpecRetry     *)
(* (async_retry), SpecRetryCancel (async_retry in a task that may be       *)
(* cancelled), SpecKey (_build_cache_key), SpecPipe (the client and the    *)
(* decorator over the caches and the monitor), SpecLimit (client calls     *)
(* under an hourly limit), SpecWindow (the monitor with a clock that       *)
(* passes hour, day and month boundaries), SpecIso (the monitor with two   *)
(* services), SpecPeers (two DiskCache instances on one directory) and     *)
(* SpecClients (two clients of one class with different keys).  A          *)
(* specification leaves the variables of the components it does not run    *)
(* untouched.                                                              *)
(***************************************************************************)
EXTENDS Integers, Sequences, FiniteSets, TLC

VARIABLES
    now,          \* wall clock, time.time() / datetime.now(), in model units
    mem,          \* LRUCache._cache: OrderedDict as a sequence, oldest first
    memLast,      \* the last LRUCache operation and what it returned
    memRecency,   \* history: keys ordered by their most recent set or get-hit
    dMeta,        \* DiskCache._metadata: key -> [ts, path]
    dFiles,       \* the blob files of the cache directory: path -> pickled value
    dIndexFile,   \* the content of metadata.json
    dLock,        \* DiskCache._lock: the task holding it, or None
    dTask,        \* per task: idle, or suspended inside a DiskCache call
    dLast,        \* the last DiskCache call: its arguments and what it returned
    usage,        \* ApiMonitor.usage_data: service name -> ApiUsageData
    govFiles,     \* the data directory: file stem -> content of <stem>.json
    govLastSave,  \* ApiMonitor._last_save_time
    autoSave,     \* ApiMonitor.auto_save
    govLock,      \* ApiMonitor._lock: the task holding it, or None
    govTask,      \* per task: idle, or suspended inside an ApiMonitor call
    govLast,      \* what the last ApiMonitor call returned, when it returns a value
    pipe,         \* per task: its client call, in flight or the last one made
    pipeCalls,    \* history: the client calls started so far
    cmUseMem,     \* CacheManager.use_memory_cache of the manager in use
    cmUseDisk,    \* CacheManager.use_disk_cache of the manager in use
    cmLast,       \* what the last CacheManager call returned
    retry,        \* the async_retry call: its arguments, position and log
    keyCall,      \* the last _build_cache_key call: its arguments and its key
    pMem,         \* a second client: the _cache of its LRUCache
    pMeta,        \* a second DiskCache on the same directory: its _metadata
    pLast         \* the call of the second instance, in flight or the last made

lruVars == <<mem, memLast, memRecency>>
diskVars == <<dMeta, dFiles, dIndexFile, dLock, dTask, dLast>>
govVars == <<usage, govFiles, govLastSave, autoSave, govLock, govTask, govLast>>
pipeVars == <<pipe, pipeCalls>>
cmVars == <<cmUseMem, cmUseDisk, cmLast>>
retryVars == <<retry>>
keyVars == <<keyCall>>
peerVars == <<pMem, pMeta, pLast>>
vars == <<now, mem, memLast, memRecency, dMeta, dFiles, dIndexFile, dLock, dTask,
          dLast, usage, govFiles, govLastSave, autoSave, govLock, govTask, govLast,
          pipe, pipeCalls, cmUseMem, cmUseDisk, cmLast, retry, keyCall,
          pMem, pMeta, pLast>>

\* ---------------------------------------------------------------- bounds
MaxTime == 3        \* the clock runs from 0 to MaxTime
MemMaxSize == 2     \* LRUCache.max_size of the modelled instance
MemTtl == 1         \* LRUCache.ttl of the modelled instance, in clock units
DiskMaxSize == 2    \* DiskCache.max_size of the modelled instance
DiskTtl == 1        \* DiskCache.ttl of the modelled instance, in clock units
HoursPerDay == 2    \* clock units (hours) in one day bucket
DaysPerMonth == 2   \* day buckets in one month bucket
MaxCalls == 2       \* recorded calls, all services together
MaxLimit == 1       \* the largest configured call limit or budget
MaxConfigured == 2  \* limits and budgets configured at once, all services together
SaveInterval == 1   \* ApiMonitor.save_interval, in clock units
MaxCost == 2        \* recorded cost, all services together
RetryCount == 1     \* RetryConfig.retry_count of the modelled client
MaxClientCalls == 2 \* client calls started in one run

Keys == {"a", "b", "c"}
Values == {"v1", "v2"}
None == "None"
Tasks == {"t1", "t2"}

\* ------------------------------------------------------------- sequences
RECURSIVE SeqRemove(_, _)
\* The sequence without the entries of key k (del self._cache[key]).
SeqRemove(s, k) ==
    IF s = <<>> THEN <<>>
    ELSE IF Head(s).key = k THEN SeqRemove(Tail(s), k)
         ELSE <<Head(s)>> \o SeqRemove(Tail(s), k)

SeqKeys(s) == {s[i].key : i \in 1..Len(s)}

SeqEntry(s, k) == s[CHOOSE i \in 1..Len(s) : s[i].key = k]

RECURSIVE KeysRemove(_, _)
\* A sequence of keys without key k.
KeysRemove(s, k) ==
    IF s = <<>> THEN <<>>
    ELSE IF Head(s) = k THEN KeysRemove(Tail(s), k)
         ELSE <<Head(s)>> \o KeysRemove(Tail(s), k)

\* ============================================================== LRUCache
\* LRUCache.get under the lock: [cache, hit, value].
LRU_get_ttl_inclusive(c, k, t) ==
    IF k \notin SeqKeys(c) THEN [cache |-> c, hit |-> FALSE, value |-> None]
    ELSE LET e == SeqEntry(c, k) IN
         IF t - e.ts >= MemTtl
         THEN [cache |-> SeqRemove(c, k), hit |-> FALSE, value |-> None]
         ELSE [cache |-> Append(SeqRemove(c, k), e), hit |-> TRUE, value |-> e.value]

\* LRUCache.get that stamps the entry on a hit.
LRU_get_touch(c, k, t) ==
    IF k \notin SeqKeys(c) THEN [cache |-> c, hit |-> FALSE, value |-> None]
    ELSE LET e == SeqEntry(c, k) IN
         IF t - e.ts > MemTtl
         THEN [cache |-> SeqRemove(c, k), hit |-> FALSE, value |-> None]
         ELSE [cache |-> Append(SeqRemove(c, k), [e EXCEPT !.ts = t]),
               hit |-> TRUE, value |-> e.value]

LRU_get(c, k, t) ==
    IF k \notin SeqKeys(c) THEN [cache |-> c, hit |-> FALSE, value |-> None]
    ELSE LET e == SeqEntry(c, k) IN
         IF t - e.ts > MemTtl
         THEN [cache |-> SeqRemove(c, k), hit |-> FALSE, value |-> None]
         ELSE [cache |-> Append(SeqRemove(c, k), e), hit |-> TRUE, value |-> e.value]

\* LRUCache.set without the capacity check.
LRU_set_no_evict(c, k, v, t) ==
    Append(SeqRemove(c, k), [key |-> k, value |-> v, ts |-> t])

\* LRUCache.set that pops the newest entry (popitem(last=True)).
LRU_set_pop_newest(c, k, v, t) ==
    LET c1 == IF k \in SeqKeys(c) THEN SeqRemove(c, k) ELSE c
        c2 == IF Len(c1) >= MemMaxSize THEN SubSeq(c1, 1, Len(c1) - 1) ELSE c1
    IN  Append(c2, [key |-> k, value |-> v, ts |-> t])

\* LRUCache.set that makes room before it removes the old entry of the key.
LRU_set_evict_first(c, k, v, t) ==
    LET c1 == IF Len(c) >= MemMaxSize THEN Tail(c) ELSE c
        c2 == IF k \in SeqKeys(c1) THEN SeqRemove(c1, k) ELSE c1
    IN  Append(c2, [key |-> k, value |-> v, ts |-> t])

\* LRUCache.set under the lock: the new cache.
LRU_set(c, k, v, t) ==
    LET c1 == IF k \in SeqKeys(c) THEN SeqRemove(c, k) ELSE c
        c2 == IF Len(c1) >= MemMaxSize THEN Tail(c1) ELSE c1
    IN  Append(c2, [key |-> k, value |-> v, ts |-> t])

\* LRUCache.delete under the lock: [cache, deleted].
LRU_delete(c, k) ==
    IF k \in SeqKeys(c) THEN [cache |-> SeqRemove(c, k), deleted |-> TRUE]
    ELSE [cache |-> c, deleted |-> FALSE]

MemExpired(c, k, t) == k \in SeqKeys(c) /\ t - SeqEntry(c, k).ts > MemTtl

NoMemOp == [op |-> "init", key |-> None, value |-> None, hit |-> FALSE,
            expired |-> FALSE, evicted |-> None, replaced |-> FALSE]

LRUCache_get(k) ==
    LET r == LRU_get(mem, k, now) IN
    /\ mem' = r.cache
    /\ memLast' = [op |-> "get", key |-> k, value |-> r.value, hit |-> r.hit,
                   expired |-> MemExpired(mem, k, now), evicted |-> None,
                   replaced |-> FALSE]
    /\ memRecency' = IF r.hit THEN Append(KeysRemove(memRecency, k), k)
                     ELSE memRecency
    /\ UNCHANGED now

LRUCache_set(k, v) ==
    LET c == LRU_set(mem, k, v, now)
        gone == (SeqKeys(mem) \ SeqKeys(c)) \ {k}
    IN
    /\ mem' = c
    /\ memLast' = [op |-> "set", key |-> k, value |-> v, hit |-> FALSE,
                   expired |-> FALSE,
                   evicted |-> IF gone = {} THEN None ELSE CHOOSE g \in gone : TRUE,
                   replaced |-> k \in SeqKeys(mem)]
    /\ memRecency' = Append(KeysRemove(memRecency, k), k)
    /\ UNCHANGED now

LRUCache_delete(k) ==
    LET r == LRU_delete(mem, k) IN
    /\ mem' = r.cache
    /\ memLast' = [op |-> "delete", key |-> k, value |-> None, hit |-> r.deleted,
                   expired |-> FALSE, evicted |-> None, replaced |-> FALSE]
    /\ UNCHANGED <<now, memRecency>>

LRUCache_clear ==
    /\ mem' = <<>>
    /\ memLast' = [op |-> "clear", key |-> None, value |-> None, hit |-> FALSE,
                   expired |-> FALSE, evicted |-> None, replaced |-> FALSE]
    /\ UNCHANGED <<now, memRecency>>

\* The wall clock advances.
Tick ==
    /\ now < MaxTime
    /\ now' = now + 1

TickLRU == Tick /\ UNCHANGED <<lruVars, diskVars, govVars, pipeVars, cmVars, retryVars, keyVars, peerVars>>

InitLRU ==
    /\ mem = <<>>
    /\ memLast = NoMemOp
    /\ memRecency = <<>>

NextLRU ==
    \/ \E k \in Keys : LRUCache_get(k) /\ UNCHANGED <<diskVars, govVars, pipeVars, cmVars, retryVars, keyVars, peerVars>>
    \/ \E k \in Keys, v \in Values : LRUCache_set(k, v) /\ UNCHANGED <<diskVars, govVars, pipeVars, cmVars, retryVars, keyVars, peerVars>>
    \/ \E k \in Keys : LRUCache_delete(k) /\ UNCHANGED <<diskVars, govVars, pipeVars, cmVars, retryVars, keyVars, peerVars>>
    \/ LRUCache_clear /\ UNCHANGED <<diskVars, govVars, pipeVars, cmVars, retryVars, keyVars, peerVars>>
    \/ TickLRU

\* ============================================================= DiskCache
\* DiskCache._get_cache_path: the file named by the md5 digest of the key.
PathOf(k) == [md5 |-> k, extension |-> ".cache"]

\* pickle.dump / pickle.load of a value.
Pickle(v) == [pickled |-> v]
Unpickle(b) == b.pickled

\* Values pickle cannot write: for one it raises PicklingError, for the other
\* TypeError.
Unpicklable == {"lambda", "lock"}

\* A blob file without content (open(path, 'wb') and nothing written), and
\* one whose content is not a pickle.
EmptyBlob == [pickled |-> "<empty>"]
GarbledBlob == [pickled |-> "<garbled>"]

\* with open(cache_path, 'wb') as f: pickle.dump(value, f): the file it
\* leaves and the exception it raises (None when it raises nothing).
PickleDump(v) ==
    IF v \in Unpicklable
    THEN [blob |-> EmptyBlob,
          raised |-> IF v = "lambda" THEN "PicklingError" ELSE "TypeError"]
    ELSE [blob |-> Pickle(v), raised |-> None]

\* with open(cache_path, 'rb') as f: pickle.load(f).
PickleLoad(b) ==
    IF b = EmptyBlob THEN [value |-> None, raised |-> "EOFError"]
    ELSE IF b = GarbledBlob THEN [value |-> None, raised |-> "UnpicklingError"]
    ELSE [value |-> Unpickle(b), raised |-> None]

\* except (IOError, pickle.PickleError): PicklingError and UnpicklingError
\* are PickleErrors.
DiskCaught(exc) == exc \in {"IOError", "PickleError", "PicklingError", "UnpicklingError"}

\* A function without the point k (del d[k], Path.unlink).
Without(f, k) == [x \in (DOMAIN f) \ {k} |-> f[x]]

\* A function with the point k set to v (d[k] = v, writing a file).
With(f, k, v) == [x \in (DOMAIN f) \cup {k} |-> IF x = k THEN v ELSE f[x]]

EmptyMap == [x \in {} |-> None]

\* The keys _cleanup_expired collects.
DiskExpiredKeys(meta, t) == {k \in DOMAIN meta : t - meta[k].ts > DiskTtl}

\* The outcome of one DiskCache call: the new index, files and metadata.json,
\* the returned pair, and where the call is suspended ("" when it returned).
\* A call is suspended where it awaits self.delete while it holds the lock.
DiskOutcome(meta, files, index, hit, value, at) ==
    [meta |-> meta, files |-> files, index |-> index,
     hit |-> hit, value |-> value, at |-> at, raised |-> None]

\* The outcome of a call that an exception leaves.
DiskRaised(meta, files, index, exc) ==
    [DiskOutcome(meta, files, index, FALSE, None, "") EXCEPT !.raised = exc]

\* DiskCache.delete that leaves the blob file.
Disk_delete_keep_blob(meta, files, index, k) ==
    IF k \notin DOMAIN meta
    THEN DiskOutcome(meta, files, index, FALSE, None, "")
    ELSE LET m == Without(meta, k) IN
         DiskOutcome(m, files, m, TRUE, None, "")

\* DiskCache.delete under the lock.
Disk_delete(meta, files, index, k) ==
    IF k \notin DOMAIN meta
    THEN DiskOutcome(meta, files, index, FALSE, None, "")
    ELSE LET m == Without(meta, k) IN
         DiskOutcome(m, Without(files, meta[k].path), m, TRUE, None, "")

\* DiskCache.get under the lock.
Disk_get(meta, files, index, k, t) ==
    IF k \notin DOMAIN meta
    THEN DiskOutcome(meta, files, index, FALSE, None, "")
    ELSE IF t - meta[k].ts > DiskTtl
    THEN DiskOutcome(meta, files, index, FALSE, None, "get:delete")
    ELSE IF meta[k].path \notin DOMAIN files
    THEN LET m == Without(meta, k) IN
         DiskOutcome(m, files, m, FALSE, None, "")
    ELSE LET l == PickleLoad(files[meta[k].path])
             m == With(meta, k, [ts |-> t, path |-> meta[k].path])
         IN  IF l.raised = None THEN DiskOutcome(m, files, m, TRUE, l.value, "")
             ELSE IF DiskCaught(l.raised)
             THEN DiskOutcome(meta, files, index, FALSE, None, "")
             ELSE DiskRaised(meta, files, index, l.raised)

\* DiskCache.set that does not write metadata.json.
Disk_set_no_save(meta, files, index, k, v, t) ==
    IF DiskExpiredKeys(meta, t) # {}
    THEN DiskOutcome(meta, files, index, FALSE, None, "_cleanup_expired:delete")
    ELSE LET f == With(files, PathOf(k), Pickle(v))
             m == With(meta, k, [ts |-> t, path |-> PathOf(k)])
         IN  IF Cardinality(DOMAIN m) > DiskMaxSize
             THEN DiskOutcome(m, f, index, FALSE, None, "_enforce_size_limit:delete")
             ELSE DiskOutcome(m, f, index, FALSE, None, "")

\* DiskCache.set under the lock: _cleanup_expired, the blob, the index,
\* _enforce_size_limit.
Disk_set(meta, files, index, k, v, t) ==
    IF DiskExpiredKeys(meta, t) # {}
    THEN DiskOutcome(meta, files, index, FALSE, None, "_cleanup_expired:delete")
    ELSE LET d == PickleDump(v)
             f == With(files, PathOf(k), d.blob)
             m == With(meta, k, [ts |-> t, path |-> PathOf(k)])
         IN  IF d.raised # None
             THEN IF DiskCaught(d.raised)
                  THEN DiskOutcome(meta, f, index, FALSE, None, "")
                  ELSE DiskRaised(meta, f, index, d.raised)
             ELSE IF Cardinality(DOMAIN m) > DiskMaxSize
             THEN DiskOutcome(m, f, m, FALSE, None, "_enforce_size_limit:delete")
             ELSE DiskOutcome(m, f, m, FALSE, None, "")

\* DiskCache.clear under the lock.
Disk_clear(meta, files, index) ==
    DiskOutcome(EmptyMap,
                [p \in (DOMAIN files) \ {meta[k].path : k \in DOMAIN meta} |-> files[p]],
                EmptyMap, FALSE, None, "")

\* DiskCache.get_stats under the lock: the counts it returns.
Disk_get_stats(meta, files, index, t) ==
    DiskOutcome(meta, files, index, FALSE,
                [total_items |-> Cardinality(DOMAIN meta),
                 expired_items |-> Cardinality(DiskExpiredKeys(meta, t)),
                 file_count |-> Cardinality({k \in DOMAIN meta :
                                               meta[k].path \in DOMAIN files})],
                "")

NoDiskCall == [op |-> "none", key |-> None, value |-> None,
               returned |-> TRUE, hit |-> FALSE, result |-> None, at |-> "",
               raised |-> None, time |-> 0]

\* async with self._lock: the lock is free and the task is not suspended.
DiskCanStart(t) ==
    /\ dLock = None
    /\ dTask[t] # "suspended"

\* A call's outcome applied to the instance; a suspended call keeps the lock.
DiskApply(t, op, k, v, r) ==
    /\ dMeta' = r.meta
    /\ dFiles' = r.files
    /\ dIndexFile' = r.index
    /\ dLock' = IF r.at = "" THEN None ELSE t
    /\ dTask' = [dTask EXCEPT ![t] = IF r.at = "" THEN "idle" ELSE "suspended"]
    /\ dLast' = [op |-> op, key |-> k, value |-> v,
                 returned |-> (r.at = "" /\ r.raised = None), hit |-> r.hit,
                 result |-> r.value, at |-> r.at, raised |-> r.raised, time |-> now]
    /\ UNCHANGED now

DiskCache_get(t, k) ==
    /\ DiskCanStart(t)
    /\ DiskApply(t, "get", k, None, Disk_get(dMeta, dFiles, dIndexFile, k, now))

DiskCache_set(t, k, v) ==
    /\ DiskCanStart(t)
    /\ DiskApply(t, "set", k, v, Disk_set(dMeta, dFiles, dIndexFile, k, v, now))

DiskCache_delete(t, k) ==
    /\ DiskCanStart(t)
    /\ DiskApply(t, "delete", k, None, Disk_delete(dMeta, dFiles, dIndexFile, k))

DiskCache_clear(t) ==
    /\ DiskCanStart(t)
    /\ DiskApply(t, "clear", None, None, Disk_clear(dMeta, dFiles, dIndexFile))

DiskCache_get_stats(t) ==
    /\ DiskCanStart(t)
    /\ DiskApply(t, "get_stats", None, None,
                 Disk_get_stats(dMeta, dFiles, dIndexFile, now))

\* The caller cancels a suspended task (asyncio.wait_for, Task.cancel): the
\* CancelledError leaves the async with block, which releases the lock.
DiskCancel(t) ==
    /\ dTask[t] = "suspended"
    /\ dTask' = [dTask EXCEPT ![t] = "idle"]
    /\ dLock' = IF dLock = t THEN None ELSE dLock
    /\ UNCHANGED <<now, dMeta, dFiles, dIndexFile, dLast>>

\* _load_metadata: the index parsed from metadata.json (the empty index when
\* the file is missing).
Disk_load_metadata(index) ==
    [k \in DOMAIN index |-> [ts |-> index[k].ts, path |-> index[k].path]]

\* A fresh DiskCache on the same directory (a restart): the index is loaded
\* from metadata.json, the lock is new and the tasks of the old instance
\* are gone.
DiskCache_init ==
    /\ dMeta' = Disk_load_metadata(dIndexFile)
    /\ dLock' = None
    /\ dTask' = [t \in Tasks |-> "idle"]
    /\ dLast' = [NoDiskCall EXCEPT !.op = "init", !.time = now]
    /\ UNCHANGED <<now, dFiles, dIndexFile>>

TickDisk == Tick /\ UNCHANGED <<lruVars, diskVars, govVars, pipeVars, cmVars, retryVars, keyVars, peerVars>>

InitDisk ==
    /\ dMeta = EmptyMap
    /\ dFiles = EmptyMap
    /\ dIndexFile = EmptyMap
    /\ dLock = None
    /\ dTask = [t \in Tasks |-> "idle"]
    /\ dLast = NoDiskCall

NextDisk ==
    \/ \E t \in Tasks, k \in Keys : DiskCache_get(t, k) /\ UNCHANGED <<lruVars, govVars, pipeVars, cmVars, retryVars, keyVars, peerVars>>
    \/ \E t \in Tasks, k \in Keys, v \in Values :
          DiskCache_set(t, k, v) /\ UNCHANGED <<lruVars, govVars, pipeVars, cmVars, retryVars, keyVars, peerVars>>
    \/ \E t \in Tasks, k \in Keys : DiskCache_delete(t, k) /\ UNCHANGED <<lruVars, govVars, pipeVars, cmVars, retryVars, keyVars, peerVars>>
    \/ \E t \in Tasks : DiskCache_clear(t) /\ UNCHANGED <<lruVars, govVars, pipeVars, cmVars, retryVars, keyVars, peerVars>>
    \/ \E t \in Tasks : DiskCache_get_stats(t) /\ UNCHANGED <<lruVars, govVars, pipeVars, cmVars, retryVars, keyVars, peerVars>>
    \/ \E t \in Tasks : DiskCancel(t) /\ UNCHANGED <<lruVars, govVars, pipeVars, cmVars, retryVars, keyVars, peerVars>>
    \/ DiskCache_init /\ UNCHANGED <<lruVars, govVars, pipeVars, cmVars, retryVars, keyVars, peerVars>>
    \/ TickDisk

\* The storage damages a blob file: it loses its content (a write that was
\* cut short) or holds bytes that are no pickle.
blob_damaged(path, blob) ==
    /\ path \in DOMAIN dFiles
    /\ dFiles[path] # blob
    /\ dFiles' = With(dFiles, path, blob)
    /\ UNCHANGED <<now, dMeta, dIndexFile, dLock, dTask, dLast>>

\* The disk cache with storage faults: values pickle cannot write and blob
\* files that are damaged.
FaultKeys == {"a", "b"}
FaultTasks == {"t1"}
FaultValues == {"v1"} \cup Unpicklable

NextDiskFault ==
    \/ \E t \in FaultTasks, k \in FaultKeys :
          DiskCache_get(t, k) /\ UNCHANGED <<lruVars, govVars, pipeVars, cmVars, retryVars, keyVars, peerVars>>
    \/ \E t \in FaultTasks, k \in FaultKeys, v \in FaultValues :
          DiskCache_set(t, k, v) /\ UNCHANGED <<lruVars, govVars, pipeVars, cmVars, retryVars, keyVars, peerVars>>
    \/ \E t \in FaultTasks, k \in FaultKeys :
          DiskCache_delete(t, k) /\ UNCHANGED <<lruVars, govVars, pipeVars, cmVars, retryVars, keyVars, peerVars>>
    \/ \E t \in FaultTasks : DiskCache_clear(t) /\ UNCHANGED <<lruVars, govVars, pipeVars, cmVars, retryVars, keyVars, peerVars>>
    \/ \E k \in FaultKeys, blob \in {EmptyBlob, GarbledBlob} :
          blob_damaged(PathOf(k), blob) /\ UNCHANGED <<lruVars, govVars, pipeVars, cmVars, retryVars, keyVars, peerVars>>
    \/ \E t \in FaultTasks : DiskCancel(t) /\ UNCHANGED <<lruVars, govVars, pipeVars, cmVars, retryVars, keyVars, peerVars>>
    \/ TickDisk

\* ============================================================ ApiMonitor
Services == {"s1"}
Endpoints == {"/e1"}
LimitKinds == {"hourly", "daily", "monthly", "total"}
NoLimit == -1       \* a limit or budget of None: unlimited

\* now.strftime("%Y-%m-%d-%H"), ("%Y-%m-%d"), ("%Y-%m"): the bucket of time t.
HourKey(t) == [hour |-> t % HoursPerDay, day |-> (t \div HoursPerDay) % DaysPerMonth,
               month |-> t \div (HoursPerDay * DaysPerMonth)]
DayKey(t) == [day |-> (t \div HoursPerDay) % DaysPerMonth,
              month |-> t \div (HoursPerDay * DaysPerMonth)]
MonthKey(t) == [month |-> t \div (HoursPerDay * DaysPerMonth)]

\* ApiUsageData(): a fresh record for service s.  last_updated and the
\* metadata of the last call, which no operation reads back, are left out.
ApiUsageData(s) ==
    [hourly_usage |-> EmptyMap, daily_usage |-> EmptyMap, monthly_usage |-> EmptyMap,
     limits |-> [hourly |-> NoLimit, daily |-> NoLimit, monthly |-> NoLimit,
                 total |-> NoLimit],
     costs |-> [total_cost |-> 0, cost_per_call |-> 0, monthly_budget |-> NoLimit],
     total_calls |-> 0, success_count |-> 0, error_count |-> 0,
     total_tokens |-> [prompt |-> 0, completion |-> 0, total |-> 0],
     api_type |-> s]

\* usage_data with a record for s (created when missing).
WithRecord(u, s) == IF s \in DOMAIN u THEN u ELSE With(u, s, ApiUsageData(s))

\* A counter triple whose calls were raised and whose success and errors were
\* not yet.
CountCall_calls_only(c, ok) == [c EXCEPT !.calls = @ + 1]

\* A calls/success/errors counter triple after one more call.
CountCall(c, ok) ==
    [c EXCEPT !.calls = @ + 1,
              !.success = IF ok THEN @ + 1 ELSE @,
              !.errors = IF ok THEN @ ELSE @ + 1]

\* The token totals after a call that reported tok (a map with any of the
\* fields prompt, completion, total; the empty map when none was passed).
AddTokens(tt, tok) ==
    [prompt |-> tt.prompt + (IF "prompt" \in DOMAIN tok THEN tok.prompt ELSE 0),
     completion |-> tt.completion
                    + (IF "completion" \in DOMAIN tok THEN tok.completion ELSE 0),
     total |-> tt.total
               + (IF "total" \in DOMAIN tok THEN tok.total
                  ELSE IF "prompt" \in DOMAIN tok /\ "completion" \in DOMAIN tok
                       THEN tok.prompt + tok.completion
                       ELSE 0)]

\* record_api_call under the lock, up to the auto-save test: the new usage_data.
Gov_record_api_call(u, s, e, ok, tok, cost, t) ==
    LET u0 == WithRecord(u, s)
        d == u0[s]
        hk == HourKey(t)
        dk == DayKey(t)
        mk == MonthKey(t)
        h0 == IF hk \in DOMAIN d.hourly_usage THEN d.hourly_usage[hk]
              ELSE [calls |-> 0, success |-> 0, errors |-> 0, endpoints |-> EmptyMap]
        e0 == IF e \in DOMAIN h0.endpoints THEN h0.endpoints[e]
              ELSE [calls |-> 0, success |-> 0, errors |-> 0]
        h1 == [CountCall(h0, ok) EXCEPT !.endpoints = With(@, e, CountCall(e0, ok))]
        d0 == IF dk \in DOMAIN d.daily_usage THEN d.daily_usage[dk]
              ELSE [calls |-> 0, success |-> 0, errors |-> 0, cost |-> 0]
        d1 == [CountCall(d0, ok) EXCEPT !.cost = @ + cost]
        m0 == IF mk \in DOMAIN d.monthly_usage THEN d.monthly_usage[mk]
              ELSE [calls |-> 0, success |-> 0, errors |-> 0, cost |-> 0,
                    tokens |-> [prompt |-> 0, completion |-> 0, total |-> 0]]
        m1 == [CountCall(m0, ok) EXCEPT !.cost = @ + cost,
                                        !.tokens = AddTokens(@, tok)]
    IN  With(u0, s,
             [d EXCEPT !.hourly_usage = With(@, hk, h1),
                       !.daily_usage = With(@, dk, d1),
                       !.monthly_usage = With(@, mk, m1),
                       !.total_tokens = AddTokens(@, tok),
                       !.costs.total_cost = @ + cost,
                       !.total_calls = @ + 1,
                       !.success_count = IF ok THEN @ + 1 ELSE @,
                       !.error_count = IF ok THEN @ ELSE @ + 1])

\* check_limits that compares the fullest bucket of each window, whatever
\* its hour, day or month.
Gov_check_limits_any_window(u, s, t) ==
    IF s \notin DOMAIN u THEN <<FALSE, None>>
    ELSE LET d == u[s]
             Reached(b, l) == l # NoLimit /\ \E k \in DOMAIN b : b[k].calls >= l
         IN
         IF Reached(d.hourly_usage, d.limits.hourly) THEN <<TRUE, "hourly">>
         ELSE IF Reached(d.daily_usage, d.limits.daily) THEN <<TRUE, "daily">>
         ELSE IF Reached(d.monthly_usage, d.limits.monthly) THEN <<TRUE, "monthly">>
         ELSE IF d.limits.total # NoLimit /\ d.total_calls >= d.limits.total
         THEN <<TRUE, "total">>
         ELSE IF /\ d.costs.monthly_budget # NoLimit
                 /\ MonthKey(t) \in DOMAIN d.monthly_usage
                 /\ d.monthly_usage[MonthKey(t)].cost >= d.costs.monthly_budget
         THEN <<TRUE, "budget">>
         ELSE <<FALSE, None>>

\* check_limits under the lock: (exceeded, limit type).
Gov_check_limits(u, s, t) ==
    IF s \notin DOMAIN u THEN <<FALSE, None>>
    ELSE LET d == u[s]
             hk == HourKey(t)
             dk == DayKey(t)
             mk == MonthKey(t)
         IN
         IF /\ d.limits.hourly # NoLimit
            /\ hk \in DOMAIN d.hourly_usage
            /\ d.hourly_usage[hk].calls >= d.limits.hourly
         THEN <<TRUE, "hourly">>
         ELSE IF /\ d.limits.daily # NoLimit
                 /\ dk \in DOMAIN d.daily_usage
                 /\ d.daily_usage[dk].calls >= d.limits.daily
         THEN <<TRUE, "daily">>
         ELSE IF /\ d.limits.monthly # NoLimit
                 /\ mk \in DOMAIN d.monthly_usage
                 /\ d.monthly_usage[mk].calls >= d.limits.monthly
         THEN <<TRUE, "monthly">>
         ELSE IF /\ d.limits.total # NoLimit
                 /\ d.total_calls >= d.limits.total
         THEN <<TRUE, "total">>
         ELSE IF /\ d.costs.monthly_budget # NoLimit
                 /\ mk \in DOMAIN d.monthly_usage
                 /\ d.monthly_usage[mk].cost >= d.costs.monthly_budget
         THEN <<TRUE, "budget">>
         ELSE <<FALSE, None>>

\* set_limit under the lock, up to its save_data: the new usage_data.
Gov_set_limit(u, s, kind, v) ==
    LET u0 == WithRecord(u, s) IN
    IF kind \in DOMAIN u0[s].limits
    THEN [u0 EXCEPT ![s].limits[kind] = v]
    ELSE u0

\* set_cost_info under the lock, up to its save_data (None: leave as it is).
Gov_set_cost_info(u, s, cpc, budget) ==
    LET u0 == WithRecord(u, s) IN
    [u0 EXCEPT ![s].costs.cost_per_call = IF cpc # NoLimit THEN cpc ELSE @,
               ![s].costs.monthly_budget = IF budget # NoLimit THEN budget ELSE @]

\* The record of s replaced by a fresh one that keeps limits and costs.
ResetRecord(u, s) ==
    [u EXCEPT ![s] = [ApiUsageData(s) EXCEPT !.limits = u[s].limits,
                                                !.costs = u[s].costs]]

\* clear_usage_data that resets every service whatever its argument.
Gov_clear_usage_data_every(u, s) == [n \in DOMAIN u |-> ResetRecord(u, n)[n]]

\* clear_usage_data under the lock, up to its save_data (s = None: every service).
Gov_clear_usage_data(u, s) ==
    IF s # None
    THEN IF s \in DOMAIN u THEN ResetRecord(u, s) ELSE u
    ELSE [n \in DOMAIN u |-> ResetRecord(u, n)[n]]

\* The age in days of an hour or day bucket, from its parsed key.
KeyDays(k) == k.month * DaysPerMonth + k.day
KeyHours(k) == KeyDays(k) * HoursPerDay + (IF "hour" \in DOMAIN k THEN k.hour ELSE 0)

\* prune_old_data that also deletes the buckets at the cutoff.
Gov_prune_old_data_inclusive(u, days, t) ==
    LET cutoff == t - days * HoursPerDay
        keep(b) == [k \in {x \in DOMAIN b : ~(KeyHours(x) <= cutoff)} |-> b[k]]
    IN  [n \in DOMAIN u |->
            [u[n] EXCEPT !.hourly_usage = keep(@), !.daily_usage = keep(@)]]

\* prune_old_data that also takes the calls of the deleted day buckets off
\* total_calls.
Gov_prune_old_data_totals(u, days, t) ==
    LET cutoff == t - days * HoursPerDay
        keep(b) == [k \in {x \in DOMAIN b : ~(KeyHours(x) < cutoff)} |-> b[k]]
    IN  [n \in DOMAIN u |->
            [u[n] EXCEPT !.hourly_usage = keep(@), !.daily_usage = keep(@),
                         !.total_calls = IF keep(u[n].daily_usage) = u[n].daily_usage
                                         THEN @ ELSE 0]]

\* prune_old_data under the lock, up to its save_data: hour and day buckets
\* parsed to a time before now - days are deleted.
Gov_prune_old_data(u, days, t) ==
    LET cutoff == t - days * HoursPerDay
        keep(b) == [k \in {x \in DOMAIN b : ~(KeyHours(x) < cutoff)} |-> b[k]]
    IN  [n \in DOMAIN u |->
            [u[n] EXCEPT !.hourly_usage = keep(@), !.daily_usage = keep(@)]]

\* _get_api_stats: the summary of one service.
Gov_get_api_stats(u, s, t) ==
    LET d == u[s]
        dk == DayKey(t)
        mk == MonthKey(t)
        inDay == dk \in DOMAIN d.daily_usage
        inMonth == mk \in DOMAIN d.monthly_usage
    IN  [total_calls |-> d.total_calls,
         success_count |-> d.success_count,
         error_count |-> d.error_count,
         total_cost |-> d.costs.total_cost,
         today |-> [calls |-> IF inDay THEN d.daily_usage[dk].calls ELSE 0,
                    cost |-> IF inDay THEN d.daily_usage[dk].cost ELSE 0],
         this_month |-> [calls |-> IF inMonth THEN d.monthly_usage[mk].calls ELSE 0,
                         cost |-> IF inMonth THEN d.monthly_usage[mk].cost ELSE 0,
                         budget |-> d.costs.monthly_budget],
         limits |-> d.limits,
         tokens |-> d.total_tokens]

\* get_usage_stats under the lock (s = None: every service).
Gov_get_usage_stats(u, s, t) ==
    IF s # None
    THEN IF s \in DOMAIN u THEN Gov_get_api_stats(u, s, t) ELSE EmptyMap
    ELSE [n \in DOMAIN u |-> Gov_get_api_stats(u, n, t)]

\* json.dump of a record into <name>_usage.json and json.load of the file.
ToJson(d) == [json |-> d]
FromJson(f) == f.json

\* Service names, as the pieces they are written with: one of them contains
\* the text "_usage".
ServiceNames == {"s1", "s_usage2", "s2"}
NameParts(s) ==
    CASE s = "s_usage2" -> <<"s", "_usage", "2">>
      [] s = "s2" -> <<"s", "2">>
      [] OTHER -> <<s>>
PartsName(p) == CHOOSE s \in ServiceNames : NameParts(s) = p

\* f"{api_name}_usage.json": the stem of the file of service s.
FileStem(s) == Append(NameParts(s), "_usage")

\* data_file.stem.replace("_usage", ""): the service name taken from a stem.
StemName(stem) ==
    LET Kept(x) == x # "_usage" IN PartsName(SelectSeq(stem, Kept))

\* save_data under the lock: one file per service of usage_data.
Gov_save_data(u, files) ==
    LET written == {FileStem(n) : n \in DOMAIN u} IN
    [f \in (DOMAIN files) \cup written |->
        IF f \in written THEN ToJson(u[CHOOSE n \in DOMAIN u : FileStem(n) = f])
        ELSE files[f]]

\* _load_data: every *_usage.json file becomes the record of the name taken
\* from its stem; when two files give the same name the one globbed last
\* stays, and the order of glob is not defined.
Gov_load_data(files) ==
    LET names == {StemName(f) : f \in DOMAIN files}
        picks == {pick \in [names -> DOMAIN files] :
                    \A n \in names : StemName(pick[n]) = n}
    IN  {[n \in names |-> FromJson(files[pick[n]])] : pick \in picks}

\* govLast when the last call was neither check_limits nor get_usage_stats.
NoGovResult == [op |-> None, service |-> None, result |-> None]

\* async with self._lock: the lock is free and the task is not suspended.
GovCanStart(t) ==
    /\ govLock = None
    /\ govTask[t] = "idle"

\* The call returns: the lock is released.
GovReturn(t) ==
    /\ govLock' = None
    /\ govTask' = [govTask EXCEPT ![t] = "idle"]

\* The call awaits self.save_data() inside its own async with self._lock:
\* save_data awaits the lock the task holds, and the task is suspended.
GovAwaitSaveData(t) ==
    /\ govLock' = t
    /\ govTask' = [govTask EXCEPT ![t] = "suspended"]

record_api_call(t, s, e, ok, tok, cost) ==
    /\ GovCanStart(t)
    /\ usage' = Gov_record_api_call(usage, s, e, ok, tok, cost, now)
    /\ IF autoSave /\ now - govLastSave > SaveInterval
       THEN GovAwaitSaveData(t)
       ELSE GovReturn(t)
    /\ govLast' = NoGovResult
    /\ UNCHANGED <<now, govFiles, govLastSave, autoSave>>

check_limits(t, s) ==
    /\ GovCanStart(t)
    /\ govLast' = [op |-> "check_limits", service |-> s,
                   result |-> Gov_check_limits(usage, s, now)]
    /\ GovReturn(t)
    /\ UNCHANGED <<now, usage, govFiles, govLastSave, autoSave>>

set_limit(t, s, kind, v) ==
    /\ GovCanStart(t)
    /\ usage' = Gov_set_limit(usage, s, kind, v)
    /\ GovAwaitSaveData(t)
    /\ govLast' = NoGovResult
    /\ UNCHANGED <<now, govFiles, govLastSave, autoSave>>

set_cost_info(t, s, cpc, budget) ==
    /\ GovCanStart(t)
    /\ usage' = Gov_set_cost_info(usage, s, cpc, budget)
    /\ GovAwaitSaveData(t)
    /\ govLast' = NoGovResult
    /\ UNCHANGED <<now, govFiles, govLastSave, autoSave>>

get_usage_stats(t, s) ==
    /\ GovCanStart(t)
    /\ govLast' = [op |-> "get_usage_stats", service |-> s,
                   result |-> Gov_get_usage_stats(usage, s, now)]
    /\ GovReturn(t)
    /\ UNCHANGED <<now, usage, govFiles, govLastSave, autoSave>>

clear_usage_data(t, s) ==
    /\ GovCanStart(t)
    /\ usage' = Gov_clear_usage_data(usage, s)
    /\ GovAwaitSaveData(t)
    /\ govLast' = NoGovResult
    /\ UNCHANGED <<now, govFiles, govLastSave, autoSave>>

prune_old_data(t, days) ==
    /\ GovCanStart(t)
    /\ usage' = Gov_prune_old_data(usage, days, now)
    /\ GovAwaitSaveData(t)
    /\ govLast' = NoGovResult
    /\ UNCHANGED <<now, govFiles, govLastSave, autoSave>>

save_data(t) ==
    /\ GovCanStart(t)
    /\ govFiles' = Gov_save_data(usage, govFiles)
    /\ govLastSave' = now
    /\ GovReturn(t)
    /\ govLast' = NoGovResult
    /\ UNCHANGED <<now, usage, autoSave>>

\* A fresh ApiMonitor on the same data directory (a restart): the records
\* are loaded from the files, the lock is new and the tasks of the old
\* instance are gone.
ApiMonitor_init ==
    /\ usage' \in Gov_load_data(govFiles)
    /\ govLock' = None
    /\ govTask' = [t \in Tasks |-> "idle"]
    /\ govLastSave' = now
    /\ govLast' = [NoGovResult EXCEPT !.op = "__init__"]
    /\ UNCHANGED <<now, govFiles, autoSave>>

\* The caller cancels a suspended task (asyncio.wait_for, Task.cancel): the
\* CancelledError leaves the async with block, which releases the lock.
GovCancel(t) ==
    /\ govTask[t] = "suspended"
    /\ govTask' = [govTask EXCEPT ![t] = "idle"]
    /\ govLock' = IF govLock = t THEN None ELSE govLock
    /\ UNCHANGED <<now, usage, govFiles, govLastSave, autoSave, govLast>>

TickGov == Tick /\ UNCHANGED <<lruVars, diskVars, govVars, pipeVars, cmVars, retryVars, keyVars, peerVars>>

InitGov ==
    /\ usage = EmptyMap
    /\ govFiles = EmptyMap
    /\ govLastSave = 0
    /\ autoSave = TRUE
    /\ govLock = None
    /\ govTask = [t \in Tasks |-> "idle"]
    /\ govLast = NoGovResult

\* The calls recorded: a success that reports tokens and a cost, and a
\* failure that reports neither.
CallInputs == {[ok |-> TRUE, tok |-> [prompt |-> 1, completion |-> 1], cost |-> 1],
               [ok |-> FALSE, tok |-> EmptyMap, cost |-> 0]}

RECURSIVE SumOver(_, _)
\* The sum of f[x] over the set S.
SumOver(f, S) ==
    IF S = {} THEN 0
    ELSE LET x == CHOOSE y \in S : TRUE IN f[x] + SumOver(f, S \ {x})

\* The calls and the cost recorded so far and the limits configured so far,
\* bounded by MaxCalls, MaxCost and MaxConfigured.
RecordedCost ==
    SumOver([n \in DOMAIN usage |-> usage[n].costs.total_cost], DOMAIN usage)
RecordedCalls == SumOver([n \in DOMAIN usage |-> usage[n].total_calls], DOMAIN usage)
ConfiguredOf(d) ==
    Cardinality({k \in LimitKinds : d.limits[k] # NoLimit})
    + (IF d.costs.monthly_budget # NoLimit THEN 1 ELSE 0)
Configured == SumOver([n \in DOMAIN usage |-> ConfiguredOf(usage[n])], DOMAIN usage)

NextGov ==
    \/ \E t \in Tasks, s \in Services, e \in Endpoints, c \in CallInputs :
          /\ RecordedCalls < MaxCalls
          /\ RecordedCost + c.cost <= MaxCost
          /\ record_api_call(t, s, e, c.ok, c.tok, c.cost)
          /\ UNCHANGED <<lruVars, diskVars, pipeVars, cmVars, retryVars, keyVars, peerVars>>
    \/ \E t \in Tasks, s \in Services :
          check_limits(t, s) /\ UNCHANGED <<lruVars, diskVars, pipeVars, cmVars, retryVars, keyVars, peerVars>>
    \/ \E t \in Tasks, s \in Services, kind \in LimitKinds,
          v \in {NoLimit} \cup 0..MaxLimit :
          /\ Configured < MaxConfigured \/ v = NoLimit
          /\ set_limit(t, s, kind, v)
          /\ UNCHANGED <<lruVars, diskVars, pipeVars, cmVars, retryVars, keyVars, peerVars>>
    \/ \E t \in Tasks, s \in Services, cpc \in {NoLimit, 1},
          budget \in {NoLimit} \cup 0..MaxLimit :
          /\ Configured < MaxConfigured \/ budget = NoLimit
          /\ set_cost_info(t, s, cpc, budget)
          /\ UNCHANGED <<lruVars, diskVars, pipeVars, cmVars, retryVars, keyVars, peerVars>>
    \/ \E t \in Tasks, s \in Services \cup {None} :
          get_usage_stats(t, s) /\ UNCHANGED <<lruVars, diskVars, pipeVars, cmVars, retryVars, keyVars, peerVars>>
    \/ \E t \in Tasks, s \in Services \cup {None} :
          clear_usage_data(t, s) /\ UNCHANGED <<lruVars, diskVars, pipeVars, cmVars, retryVars, keyVars, peerVars>>
    \/ \E t \in Tasks, days \in 0..1 :
          prune_old_data(t, days) /\ UNCHANGED <<lruVars, diskVars, pipeVars, cmVars, retryVars, keyVars, peerVars>>
    \/ \E t \in Tasks : GovCancel(t) /\ UNCHANGED <<lruVars, diskVars, pipeVars, cmVars, retryVars, keyVars, peerVars>>
    \/ TickGov

\* Recording, saving and reading the statistics: the files follow usage_data
\* only through save_data.
\* The services of the calls recorded in the runs with save_data.
SaveServices == {"s1", "s_usage2"}

NextGovSave ==
    \/ \E t \in Tasks, s \in SaveServices, e \in Endpoints, c \in CallInputs :
          /\ RecordedCalls < MaxCalls
          /\ RecordedCost + c.cost <= MaxCost
          /\ record_api_call(t, s, e, c.ok, c.tok, c.cost)
          /\ UNCHANGED <<lruVars, diskVars, pipeVars, cmVars, retryVars, keyVars, peerVars>>
    \/ \E t \in Tasks : save_data(t) /\ UNCHANGED <<lruVars, diskVars, pipeVars, cmVars, retryVars, keyVars, peerVars>>
    \/ \E t \in Tasks, s \in SaveServices :
          get_usage_stats(t, s) /\ UNCHANGED <<lruVars, diskVars, pipeVars, cmVars, retryVars, keyVars, peerVars>>
    \/ ApiMonitor_init /\ UNCHANGED <<lruVars, diskVars, pipeVars, cmVars, retryVars, keyVars, peerVars>>
    \/ \E t \in Tasks : GovCancel(t) /\ UNCHANGED <<lruVars, diskVars, pipeVars, cmVars, retryVars, keyVars, peerVars>>
    \/ TickGov

\* The services, endpoints and the task of the runs with two services.
IsoServices == {"s1", "s2"}
IsoEndpoints == {"/e1", "/e2"}
IsoTasks == {"t1"}

\* datetime.now() between two calls: the clock has moved on by an hour, a
\* day or a month.
WindowMaxTime == 5
Advance(d) ==
    /\ now + d <= WindowMaxTime
    /\ now' = now + d
    /\ UNCHANGED <<lruVars, diskVars, govVars, pipeVars, cmVars, retryVars, keyVars, peerVars>>

\* One service with limits and a clock that passes the window boundaries.
NextWindow ==
    \/ \E t \in IsoTasks, s \in Services, e \in Endpoints :
          /\ RecordedCalls < MaxCalls
          /\ record_api_call(t, s, e, TRUE, EmptyMap, 0)
          /\ UNCHANGED <<lruVars, diskVars, pipeVars, cmVars, retryVars, keyVars, peerVars>>
    \/ \E t \in IsoTasks, s \in Services :
          check_limits(t, s) /\ UNCHANGED <<lruVars, diskVars, pipeVars, cmVars, retryVars, keyVars, peerVars>>
    \/ \E t \in IsoTasks, s \in Services, kind \in LimitKinds,
          v \in {NoLimit} \cup 0..MaxLimit :
          /\ Configured < MaxConfigured \/ v = NoLimit
          /\ set_limit(t, s, kind, v)
          /\ UNCHANGED <<lruVars, diskVars, pipeVars, cmVars, retryVars, keyVars, peerVars>>
    \/ \E t \in IsoTasks, s \in Services :
          clear_usage_data(t, s) /\ UNCHANGED <<lruVars, diskVars, pipeVars, cmVars, retryVars, keyVars, peerVars>>
    \/ \E t \in IsoTasks : GovCancel(t) /\ UNCHANGED <<lruVars, diskVars, pipeVars, cmVars, retryVars, keyVars, peerVars>>
    \/ \E d \in {1, HoursPerDay, HoursPerDay * DaysPerMonth} : Advance(d)

\* Two services with two endpoints each on one ApiMonitor.

NextIso ==
    \/ \E t \in IsoTasks, s \in IsoServices, e \in IsoEndpoints, ok \in BOOLEAN :
          /\ RecordedCalls < MaxCalls
          /\ record_api_call(t, s, e, ok, EmptyMap, 0)
          /\ UNCHANGED <<lruVars, diskVars, pipeVars, cmVars, retryVars, keyVars, peerVars>>
    \/ \E t \in IsoTasks, s \in IsoServices :
          check_limits(t, s) /\ UNCHANGED <<lruVars, diskVars, pipeVars, cmVars, retryVars, keyVars, peerVars>>
    \/ \E t \in IsoTasks, s \in IsoServices, v \in {NoLimit, MaxLimit} :
          /\ Configured < MaxLimit \/ v = NoLimit
          /\ set_limit(t, s, "total", v)
          /\ UNCHANGED <<lruVars, diskVars, pipeVars, cmVars, retryVars, keyVars, peerVars>>
    \/ \E t \in IsoTasks, s \in IsoServices :
          /\ Configured < MaxLimit
          /\ set_cost_info(t, s, NoLimit, MaxLimit)
          /\ UNCHANGED <<lruVars, diskVars, pipeVars, cmVars, retryVars, keyVars, peerVars>>
    \/ \E t \in IsoTasks, s \in IsoServices :
          get_usage_stats(t, s) /\ UNCHANGED <<lruVars, diskVars, pipeVars, cmVars, retryVars, keyVars, peerVars>>
    \/ \E t \in IsoTasks, s \in IsoServices :
          clear_usage_data(t, s) /\ UNCHANGED <<lruVars, diskVars, pipeVars, cmVars, retryVars, keyVars, peerVars>>
    \/ \E t \in IsoTasks :
          prune_old_data(t, 0) /\ UNCHANGED <<lruVars, diskVars, pipeVars, cmVars, retryVars, keyVars, peerVars>>
    \/ \E t \in IsoTasks : GovCancel(t) /\ UNCHANGED <<lruVars, diskVars, pipeVars, cmVars, retryVars, keyVars, peerVars>>
    \/ TickGov

\* ========================================================== CacheManager
\* A DiskCache that is not called.
DiskUntouched(meta, files, index) == DiskOutcome(meta, files, index, FALSE, None, "")

\* CacheManager.get with the tiers um (memory) and ud (disk) enabled: the
\* memory cache first, then the disk cache, whose hit is stored into the
\* memory cache.  disk is the outcome of the DiskCache call.
CM_get(um, ud, c, meta, files, index, k, t) ==
    LET m == IF um THEN LRU_get(c, k, t)
             ELSE [cache |-> c, hit |-> FALSE, value |-> None]
    IN  IF m.hit
        THEN [mem |-> m.cache, disk |-> DiskUntouched(meta, files, index),
              called |-> FALSE, hit |-> TRUE, value |-> m.value]
        ELSE IF ud
        THEN LET d == Disk_get(meta, files, index, k, t) IN
             IF d.hit
             THEN [mem |-> IF um THEN LRU_set(m.cache, k, d.value, t) ELSE m.cache,
                   disk |-> d, called |-> TRUE, hit |-> TRUE, value |-> d.value]
             ELSE [mem |-> m.cache, disk |-> d, called |-> TRUE,
                   hit |-> FALSE, value |-> None]
        ELSE [mem |-> m.cache, disk |-> DiskUntouched(meta, files, index),
              called |-> FALSE, hit |-> FALSE, value |-> None]

\* CacheManager.set: the memory cache, then the disk cache.
CM_set(um, ud, c, meta, files, index, k, v, t) ==
    [mem |-> IF um THEN LRU_set(c, k, v, t) ELSE c,
     disk |-> IF ud THEN Disk_set(meta, files, index, k, v, t)
              ELSE DiskUntouched(meta, files, index),
     called |-> ud, hit |-> FALSE, value |-> None]

\* CacheManager.delete: both tiers; hit is the returned flag.
CM_delete(um, ud, c, meta, files, index, k) ==
    LET m == IF um THEN LRU_delete(c, k) ELSE [cache |-> c, deleted |-> FALSE]
        d == IF ud THEN Disk_delete(meta, files, index, k)
             ELSE DiskUntouched(meta, files, index)
    IN  [mem |-> m.cache, disk |-> d, called |-> ud,
         hit |-> m.deleted \/ d.hit, value |-> None]

\* CacheManager.clear: both tiers.
CM_clear(um, ud, c, meta, files, index) ==
    [mem |-> IF um THEN <<>> ELSE c,
     disk |-> IF ud THEN Disk_clear(meta, files, index)
              ELSE DiskUntouched(meta, files, index),
     called |-> ud, hit |-> FALSE, value |-> None]

\* No CacheManager call has been made.
NoCacheCall == [op |-> None, key |-> None, value |-> None, returned |-> FALSE,
                hit |-> FALSE, result |-> None]

\* CacheManager(memory_cache, disk_cache, use_memory_cache, use_disk_cache)
\* over the two cache instances.
CacheManager_init(um, ud) ==
    /\ \A t \in Tasks : dTask[t] = "idle"
    /\ cmUseMem' = um
    /\ cmUseDisk' = ud
    /\ cmLast' = NoCacheCall
    /\ UNCHANGED <<now, lruVars, diskVars>>

\* Task t makes a CacheManager call with outcome r.  A call that reaches the
\* disk cache takes its lock; a call that leaves an await on delete inside
\* the disk cache stays suspended holding it.
CMApply(t, op, k, v, r) ==
    /\ dTask[t] = "idle"
    /\ r.called => dLock = None
    /\ mem' = r.mem
    /\ dMeta' = r.disk.meta
    /\ dFiles' = r.disk.files
    /\ dIndexFile' = r.disk.index
    /\ dLock' = IF r.disk.at = "" THEN dLock ELSE t
    /\ dTask' = [dTask EXCEPT ![t] = IF r.disk.at = "" THEN "idle" ELSE "suspended"]
    /\ cmLast' = [op |-> op, key |-> k, value |-> v, returned |-> (r.disk.at = ""),
                  hit |-> r.hit, result |-> r.value]
    /\ memRecency' = IF r.mem # mem /\ k \in SeqKeys(r.mem)
                     THEN Append(KeysRemove(memRecency, k), k)
                     ELSE memRecency
    /\ UNCHANGED <<now, memLast, dLast, cmUseMem, cmUseDisk>>

CacheManager_get(t, k) ==
    CMApply(t, "get", k, None,
            CM_get(cmUseMem, cmUseDisk, mem, dMeta, dFiles, dIndexFile, k, now))

CacheManager_set(t, k, v) ==
    CMApply(t, "set", k, v,
            CM_set(cmUseMem, cmUseDisk, mem, dMeta, dFiles, dIndexFile, k, v, now))

CacheManager_delete(t, k) ==
    CMApply(t, "delete", k, None,
            CM_delete(cmUseMem, cmUseDisk, mem, dMeta, dFiles, dIndexFile, k))

CacheManager_clear(t) ==
    CMApply(t, "clear", None, None,
            CM_clear(cmUseMem, cmUseDisk, mem, dMeta, dFiles, dIndexFile))

TickCM == Tick /\ UNCHANGED <<lruVars, diskVars, govVars, pipeVars, cmVars, retryVars, keyVars, peerVars>>

\* The keys and the task of the CacheManager runs.
CMKeys == {"a", "b"}
CMTasks == {"t1"}

NextCM ==
    \/ \E um \in BOOLEAN, ud \in BOOLEAN :
          CacheManager_init(um, ud) /\ UNCHANGED <<govVars, pipeVars, retryVars, keyVars, peerVars>>
    \/ \E t \in CMTasks, k \in CMKeys :
          CacheManager_get(t, k) /\ UNCHANGED <<govVars, pipeVars, retryVars, keyVars, peerVars>>
    \/ \E t \in CMTasks, k \in CMKeys, v \in Values :
          CacheManager_set(t, k, v) /\ UNCHANGED <<govVars, pipeVars, retryVars, keyVars, peerVars>>
    \/ \E t \in CMTasks, k \in CMKeys :
          CacheManager_delete(t, k) /\ UNCHANGED <<govVars, pipeVars, retryVars, keyVars, peerVars>>
    \/ \E t \in CMTasks : CacheManager_clear(t) /\ UNCHANGED <<govVars, pipeVars, retryVars, keyVars, peerVars>>
    \/ \E t \in CMTasks : DiskCancel(t) /\ UNCHANGED <<lruVars, govVars, pipeVars, cmVars, retryVars, keyVars, peerVars>>
    \/ TickCM

\* ========================================================= BaseAPIClient
ClientService == "s1"     \* BaseAPIClient.api_type
Methods == {"GET", "POST"}
RETRYABLE_STATUS_CODES == {429, 500, 502, 503, 504}

\* What the transport does with one attempt: a 2xx response with or without
\* a usage field, an error status (raise_for_status raises HTTPStatusError),
\* or a connection failure or timeout (both httpx.RequestError).
Replies ==
    {[kind |-> "ok", body |-> "v1", usage |-> TRUE],
     [kind |-> "ok", body |-> "v2", usage |-> FALSE],
     [kind |-> "status", code |-> 503],
     [kind |-> "status", code |-> 501],
     [kind |-> "status", code |-> 404],
     [kind |-> "network"],
     [kind |-> "timeout"]}

\* _request_impl: the (success, data) pair made from the transport's reply.
\* The error text is kept as the set of the retry keywords of
\* _should_retry_on_result that occur in it; the fixed text returned for every
\* httpx.RequestError holds none of them.
Request_impl(reply) ==
    IF reply.kind = "ok"
    THEN IF reply.usage
         THEN <<TRUE, [body |-> reply.body,
                       usage |-> [prompt_tokens |-> 1, completion_tokens |-> 1]]>>
         ELSE <<TRUE, [body |-> reply.body]>>
    ELSE IF reply.kind = "status"
    THEN <<FALSE, [error |-> {}, status_code |-> reply.code]>>
    ELSE <<FALSE, [error |-> {}]>>

\* _should_retry_on_result.
ShouldRetryOnResult(result) ==
    IF result[1] THEN FALSE
    ELSE IF "status_code" \in DOMAIN result[2]
    THEN result[2].status_code \in RETRYABLE_STATUS_CODES
    ELSE IF "error" \in DOMAIN result[2]
    THEN result[2].error # {}
    ELSE FALSE

\* The tokens request() and the decorator's wrapper take from a result (the
\* empty map for tokens=None).
ResponseTokens(result) ==
    IF result[1] /\ "usage" \in DOMAIN result[2]
    THEN LET u == result[2].usage
             f(name, from) == IF from \in DOMAIN u THEN [x \in {name} |-> u[from]]
                              ELSE EmptyMap
             p == f("prompt", "prompt_tokens")
             c == f("completion", "completion_tokens")
             tt == f("total", "total_tokens")
         IN  [x \in DOMAIN p \cup DOMAIN c \cup DOMAIN tt |->
                 IF x \in DOMAIN p THEN p[x] ELSE IF x \in DOMAIN c THEN c[x] ELSE tt[x]]
    ELSE EmptyMap

\* ---------------------------------------------------------------- cache key
\* Strings are sequences of characters. The alphabet has the separators
\* ":", "&" and "=" and one character for every other text that occurs.
KeyMethods == {"GET", "get", "POST"}
KeyEndpoints == {<<"/e1">>, <<"/e2">>, <<"/e1", ":", "a", "=", "1">>}
ParamNames == <<"a", "b">>                  \* in the order sorted() gives them
ParamValues == {<<"1">>, <<"2">>, <<"1", "&", "b", "=", "2">>}

\* The params argument: a dict as the sequence of its items in insertion
\* order; the empty sequence is both {} and None (if params:).
KeyParams ==
    LET names == {ParamNames[i] : i \in DOMAIN ParamNames}
        Item == names \X ParamValues
    IN  {<<>>} \cup {<<x>> : x \in Item}
               \cup {<<q[1], q[2]>> : q \in {z \in Item \X Item : z[1][1] # z[2][1]}}

\* str.upper() of a method.
Upper(method) == IF method = "get" THEN "GET" ELSE method

\* sep.join(parts).
RECURSIVE Join(_, _)
Join(parts, sep) ==
    IF parts = <<>> THEN <<>>
    ELSE IF Len(parts) = 1 THEN parts[1]
    ELSE parts[1] \o <<sep>> \o Join(Tail(parts), sep)

\* sorted(params.items()): the items in the order of their names.
SortedItems(params) ==
    LET at(n) == SelectSeq(params, LAMBDA x : x[1] = ParamNames[n])
        RECURSIVE from(_)
        from(n) == IF n > Len(ParamNames) THEN <<>> ELSE at(n) \o from(n + 1)
    IN  from(1)

\* _build_cache_key.
build_cache_key(method, endpoint, params) ==
    LET items == SortedItems(params)
        sorted_params == Join([i \in DOMAIN items |->
                                  <<items[i][1], "=">> \o items[i][2]], "&")
        key_parts == <<<<"BaseAPIClient">>, <<Upper(method)>>, endpoint>>
                        \o (IF params # <<>> THEN <<sorted_params>> ELSE <<>>)
    IN  Join(key_parts, ":")

NoKeyCall == [method |-> "", endpoint |-> <<>>, params |-> <<>>, key |-> <<>>]

\* A call of _build_cache_key.
BaseAPIClient_build_cache_key(method, endpoint, params) ==
    /\ keyCall' = [method |-> method, endpoint |-> endpoint, params |-> params,
                   key |-> build_cache_key(method, endpoint, params)]
    /\ UNCHANGED <<now, lruVars, diskVars, govVars, pipeVars, cmVars, retryVars, peerVars>>

NextKey ==
    \E method \in KeyMethods, endpoint \in KeyEndpoints, params \in KeyParams :
       BaseAPIClient_build_cache_key(method, endpoint, params)

\* The key of a client call of the pipeline: no params.
CacheKey(method, endpoint) == build_cache_key(method, <<endpoint>>, <<>>)

\* The usage-limit failure request() and the wrapper return: its message names
\* the limit type and holds no retry keyword.
LimitError(kind) == <<FALSE, [error |-> {}, limit_type |-> kind]>>

\* The preflight of request() without the limit check.
Preflight_unchecked(u, s, monitor, checkLimits, t) == <<FALSE, None>>

\* The preflight of request(): check_limits when monitoring is on and the
\* call asks for the check.
Preflight(u, s, monitor, checkLimits, t) ==
    IF monitor /\ checkLimits THEN Gov_check_limits(u, s, t) ELSE <<FALSE, None>>

\* A task that has made no client call yet.  steps is the history of the
\* call after its preflight: the cache lookup, the first transport attempt,
\* the cache store and the record, in the order they happened.
NoClientCall ==
    [pc |-> "idle", op |-> None, method |-> None, endpoint |-> None,
     cached |-> FALSE, monitor |-> FALSE, attempt |-> 0, looked |-> FALSE,
     stored |-> FALSE, recorded |-> FALSE, outcome |-> None,
     result |-> <<FALSE, EmptyMap>>, steps |-> <<>>]

\* The task runs no call of its own and hangs in none; the call it starts is
\* counted.
ClientCanStart(t) ==
    /\ pipe[t].pc = "idle"
    /\ dTask[t] = "idle"
    /\ govTask[t] = "idle"
    /\ pipeCalls' = pipeCalls + 1
    /\ UNCHANGED <<cmVars, retryVars, keyVars, peerVars>>

\* The two tiers after the CacheManager call r on key k by task t; the task
\* is suspended with the disk lock where the DiskCache call is.
CacheApply(t, k, r) ==
    /\ dLock = None
    /\ mem' = r.mem
    /\ memRecency' = IF k \in SeqKeys(r.mem) THEN Append(KeysRemove(memRecency, k), k)
                     ELSE memRecency
    /\ dMeta' = r.disk.meta
    /\ dFiles' = r.disk.files
    /\ dIndexFile' = r.disk.index
    /\ dLock' = IF r.disk.at = "" THEN None ELSE t
    /\ dTask' = [dTask EXCEPT ![t] = IF r.disk.at = "" THEN "idle" ELSE "suspended"]
    /\ UNCHANGED <<memLast, dLast>>

\* The call p of task t is suspended inside a cache or monitor call.
ClientSuspended(t, p) ==
    pipe' = [pipe EXCEPT ![t] = [p EXCEPT !.pc = "suspended"]]

\* The end of request() and of the wrapper: record_api_call when monitoring
\* is on, then the result is returned (outcome "returned") or the exception
\* raised again (outcome "raised").
ClientFinish(t, p, outcome, result) ==
    IF p.monitor
    THEN /\ record_api_call(t, ClientService, p.endpoint, result[1],
                            ResponseTokens(result), 0)
         /\ pipe' = [pipe EXCEPT ![t] =
                        IF govTask'[t] = "suspended"
                        THEN [p EXCEPT !.pc = "suspended", !.recorded = TRUE,
                                       !.steps = Append(@, "RECORD")]
                        ELSE [p EXCEPT !.pc = "idle", !.recorded = TRUE,
                                       !.steps = Append(@, "RECORD"),
                                       !.outcome = outcome, !.result = result]]
    ELSE /\ pipe' = [pipe EXCEPT ![t] = [p EXCEPT !.pc = "idle", !.outcome = outcome,
                                                  !.result = result]]
         /\ UNCHANGED govVars

\* BaseAPIClient.request up to its first wait for the transport: the
\* preflight, and for a cacheable GET the cache lookup; a hit is recorded and
\* returned.
request(t, method, e, useCache, checkLimits, monitor) ==
    /\ ClientCanStart(t)
    /\ monitor => govLock = None
    /\ LET pre == Preflight(usage, ClientService, monitor, checkLimits, now)
           p == [NoClientCall EXCEPT !.op = "request", !.method = method,
                                      !.endpoint = e, !.monitor = monitor,
                                      !.cached = useCache /\ method = "GET"]
       IN  IF pre[1]
           THEN /\ pipe' = [pipe EXCEPT ![t] = [p EXCEPT !.outcome = "blocked",
                                                         !.result = LimitError(pre[2])]]
                /\ UNCHANGED <<lruVars, diskVars, govVars>>
           ELSE IF p.cached
           THEN LET k == CacheKey(method, e)
                    r == CM_get(TRUE, TRUE, mem, dMeta, dFiles, dIndexFile, k, now)
                    q == [p EXCEPT !.looked = TRUE, !.steps = Append(@, "CACHE_LOOKUP")]
                IN  /\ CacheApply(t, k, r)
                    /\ IF r.disk.at # ""
                       THEN ClientSuspended(t, q) /\ UNCHANGED govVars
                       ELSE IF r.hit
                       THEN ClientFinish(t, q, "returned", r.value)
                       ELSE /\ pipe' = [pipe EXCEPT ![t] =
                                           [q EXCEPT !.pc = "transport", !.attempt = 1,
                                                     !.steps = Append(@, "EXECUTE")]]
                            /\ UNCHANGED govVars
           ELSE /\ pipe' = [pipe EXCEPT ![t] =
                               [p EXCEPT !.pc = "transport", !.attempt = 1,
                                         !.steps = Append(@, "EXECUTE")]]
                /\ UNCHANGED <<lruVars, diskVars, govVars>>
    /\ UNCHANGED now

\* _cached_request that stores whatever the request returned.
ShouldStore_any(p, result) == p.cached

\* _cached_request: only a successful result is stored.
ShouldStore(p, result) == p.cached /\ result[1]

\* The transport answers an attempt of _direct_request: async_retry sleeps and
\* tries again, or the result is final, is cached when it is a success of a
\* cacheable GET, is recorded and returned.
transport_reply(t, reply) ==
    /\ pipe[t].pc = "transport"
    /\ UNCHANGED <<pipeCalls, cmVars, retryVars, keyVars, peerVars>>
    /\ LET p == pipe[t]
           result == Request_impl(reply)
       IN  IF ShouldRetryOnResult(result) /\ p.attempt <= RetryCount
           THEN /\ pipe' = [pipe EXCEPT ![t] = [p EXCEPT !.attempt = @ + 1]]
                /\ UNCHANGED <<lruVars, diskVars, govVars>>
           ELSE /\ p.monitor => govLock = None
                /\ IF ShouldStore(p, result)
                   THEN LET k == CacheKey(p.method, p.endpoint)
                            r == CM_set(TRUE, TRUE, mem, dMeta, dFiles, dIndexFile, k, result,
                                        now)
                            q == [p EXCEPT !.stored = TRUE,
                                           !.steps = Append(@, "CACHE_STORE")]
                        IN  /\ CacheApply(t, k, r)
                            /\ IF r.disk.at # ""
                               THEN ClientSuspended(t, q) /\ UNCHANGED govVars
                               ELSE ClientFinish(t, q, "returned", result)
                   ELSE /\ ClientFinish(t, p, "returned", result)
                        /\ UNCHANGED <<lruVars, diskVars>>
    /\ UNCHANGED now

\* The wrapper of ApiMonitorDecorator up to its call of the wrapped function.
wrapper(t, e, checkLimits) ==
    /\ ClientCanStart(t)
    /\ checkLimits => govLock = None
    /\ LET pre == IF checkLimits THEN Gov_check_limits(usage, ClientService, now)
                  ELSE <<FALSE, None>>
           p == [NoClientCall EXCEPT !.op = "wrapper", !.endpoint = e, !.monitor = TRUE]
       IN  pipe' = [pipe EXCEPT ![t] =
                       IF pre[1] THEN [p EXCEPT !.outcome = "blocked",
                                               !.result = LimitError(pre[2])]
                       ELSE [p EXCEPT !.pc = "func", !.attempt = 1]]
    /\ UNCHANGED <<now, lruVars, diskVars, govVars>>

\* The wrapped function returns a (success, data) pair: the wrapper records
\* the call and returns the pair.
func_return(t, result) ==
    /\ pipe[t].pc = "func"
    /\ govLock = None
    /\ UNCHANGED <<pipeCalls, cmVars, retryVars, keyVars, peerVars>>
    /\ ClientFinish(t, pipe[t], "returned", result)
    /\ UNCHANGED <<now, lruVars, diskVars>>

\* The wrapped function raises: the wrapper records a failure without tokens
\* and raises the exception again.
func_raise(t) ==
    /\ pipe[t].pc = "func"
    /\ govLock = None
    /\ UNCHANGED <<pipeCalls, cmVars, retryVars, keyVars, peerVars>>
    /\ ClientFinish(t, pipe[t], "raised", <<FALSE, EmptyMap>>)
    /\ UNCHANGED <<now, lruVars, diskVars>>

\* The caller cancels a client call suspended inside a cache or monitor
\* call: the lock the task holds is released.
ClientCancel(t) ==
    /\ pipe[t].pc = "suspended"
    /\ UNCHANGED <<pipeCalls, cmVars, retryVars, keyVars, peerVars>>
    /\ pipe' = [pipe EXCEPT ![t] = [@ EXCEPT !.pc = "idle", !.outcome = "cancelled"]]
    /\ dTask' = [dTask EXCEPT ![t] = "idle"]
    /\ dLock' = IF dLock = t THEN None ELSE dLock
    /\ govTask' = [govTask EXCEPT ![t] = "idle"]
    /\ govLock' = IF govLock = t THEN None ELSE govLock
    /\ UNCHANGED <<now, lruVars, dMeta, dFiles, dIndexFile, dLast, usage, govFiles,
                   govLastSave, autoSave, govLast>>

TickPipe == Tick /\ UNCHANGED <<lruVars, diskVars, govVars, pipeVars, cmVars, retryVars, keyVars, peerVars>>


\* The client and the decorator at work: one limit is configured before the
\* first call (set_limit, cancelled out of its wait), then at most
\* MaxClientCalls calls are made.
NextPipe ==
    \/ \E t \in Tasks, method \in Methods, e \in Endpoints, useCache \in BOOLEAN,
          checkLimits \in BOOLEAN, monitor \in BOOLEAN :
          /\ pipeCalls < MaxClientCalls
          /\ request(t, method, e, useCache, checkLimits, monitor)
    \/ \E t \in Tasks, reply \in Replies : transport_reply(t, reply)
    \/ \E t \in Tasks, e \in Endpoints \cup {"unknown"}, checkLimits \in BOOLEAN :
          /\ pipeCalls < MaxClientCalls
          /\ wrapper(t, e, checkLimits)
    \/ \E t \in Tasks, reply \in Replies : func_return(t, Request_impl(reply))
    \/ \E t \in Tasks : func_raise(t)
    \/ \E t \in Tasks : ClientCancel(t)
    \/ \E t \in Tasks, kind \in LimitKinds, v \in 0..MaxLimit :
          /\ Configured = 0
          /\ pipeCalls = 0
          /\ set_limit(t, ClientService, kind, v)
          /\ UNCHANGED <<lruVars, diskVars, pipeVars, cmVars, retryVars, keyVars, peerVars>>
    \/ \E t \in Tasks :
          /\ pipe[t].pc = "idle"
          /\ GovCancel(t)
          /\ UNCHANGED <<lruVars, diskVars, pipeVars, cmVars, retryVars, keyVars, peerVars>>
    \/ TickPipe

\* Client calls under an hourly limit: the limit is configured before the
\* first call, every call is monitored and asks for the limit check, and the
\* calls of the tasks interleave where they wait for the transport.
NextLimit ==
    \/ \E t \in Tasks, v \in 0..MaxLimit :
          /\ Configured = 0
          /\ pipeCalls = 0
          /\ set_limit(t, ClientService, "hourly", v)
          /\ UNCHANGED <<lruVars, diskVars, pipeVars, cmVars, retryVars, keyVars, peerVars>>
    \/ \E t \in Tasks :
          /\ pipe[t].pc = "idle"
          /\ GovCancel(t)
          /\ UNCHANGED <<lruVars, diskVars, pipeVars, cmVars, retryVars, keyVars, peerVars>>
    \/ \E t \in Tasks, method \in Methods, e \in Endpoints :
          /\ Configured = 1
          /\ pipeCalls < MaxClientCalls
          /\ request(t, method, e, FALSE, TRUE, TRUE)
    \/ \E t \in Tasks, reply \in Replies : transport_reply(t, reply)
    \/ TickPipe

\* ====================================================== a second instance
\* DiskCache() takes DEFAULT_CACHE_DIR, so the DiskCache of every client is
\* on one directory: the blob files and metadata.json are shared, the
\* _metadata and the lock of each instance are its own.
NoPeerCall == [pc |-> "idle", op |-> "none", key |-> None, hit |-> FALSE,
               result |-> None, attempt |-> 0]

\* DiskCache(), and BaseAPIClient(api_key, use_monitor=False) around it: the
\* second instance is constructed with a new LRUCache and loads metadata.json.
Peer_init ==
    /\ pLast.pc # "transport"
    /\ pMem' = <<>>
    /\ pMeta' = Disk_load_metadata(dIndexFile)
    /\ pLast' = [NoPeerCall EXCEPT !.op = "__init__"]
    /\ UNCHANGED <<now, diskVars>>

\* The outcome r of a DiskCache call of the second instance on key k: its
\* own _metadata, the shared files; a call that awaits self.delete under its
\* lock stays suspended.
PeerApply(op, k, r) ==
    /\ pLast.pc = "idle"
    /\ pMeta' = r.meta
    /\ dFiles' = r.files
    /\ dIndexFile' = r.index
    /\ pLast' = [NoPeerCall EXCEPT !.pc = IF r.at = "" THEN "idle" ELSE "suspended",
                                    !.op = op, !.key = k, !.hit = r.hit,
                                    !.result = r.value]
    /\ UNCHANGED <<now, pMem, dMeta, dLock, dTask, dLast>>

\* set and get of the second DiskCache.
Peer_set(k, v) == PeerApply("set", k, Disk_set(pMeta, dFiles, dIndexFile, k, v, now))
Peer_get(k) == PeerApply("get", k, Disk_get(pMeta, dFiles, dIndexFile, k, now))

\* Two clients of one class: the api_key each was constructed with, and the
\* replies the service gives to a request sent with that key.
ClientKey == "key1"
PeerKey == "key2"
BodyFor(apiKey) == IF apiKey = ClientKey THEN "v1" ELSE "v2"
ServerReplies(apiKey) == {r \in Replies : r.kind = "ok" => r.body = BodyFor(apiKey)}

\* The two tiers of the second client after its CacheManager call r.
PeerCacheApply(r) ==
    /\ pMem' = r.mem
    /\ pMeta' = r.disk.meta
    /\ dFiles' = r.disk.files
    /\ dIndexFile' = r.disk.index
    /\ UNCHANGED <<now, dMeta, dLock, dTask, dLast>>

\* request("GET", e) of the second client up to its wait for the transport:
\* the cache lookup; a hit is returned.
Peer_request(e) ==
    /\ pLast.pc = "idle"
    /\ LET k == CacheKey("GET", e)
           r == CM_get(TRUE, TRUE, pMem, pMeta, dFiles, dIndexFile, k, now)
           p == [NoPeerCall EXCEPT !.op = "request", !.key = k]
       IN  /\ PeerCacheApply(r)
           /\ pLast' = IF r.disk.at # "" THEN [p EXCEPT !.pc = "suspended"]
                       ELSE IF r.hit THEN [p EXCEPT !.hit = TRUE, !.result = r.value]
                       ELSE [p EXCEPT !.pc = "transport", !.attempt = 1]

\* The transport answers an attempt of the second client: async_retry tries
\* again, or the result is final, is cached when it is a success, and is
\* returned.
Peer_transport_reply(reply) ==
    /\ pLast.pc = "transport"
    /\ LET result == Request_impl(reply) IN
       IF ShouldRetryOnResult(result) /\ pLast.attempt <= RetryCount
       THEN /\ pLast' = [pLast EXCEPT !.attempt = @ + 1]
            /\ UNCHANGED <<now, pMem, pMeta, diskVars>>
       ELSE IF ShouldStore([cached |-> TRUE], result)
       THEN LET r == CM_set(TRUE, TRUE, pMem, pMeta, dFiles, dIndexFile, pLast.key,
                            result, now)
            IN  /\ PeerCacheApply(r)
                /\ pLast' = [pLast EXCEPT !.pc = IF r.disk.at # "" THEN "suspended"
                                                 ELSE "idle",
                                          !.result = result]
       ELSE /\ pLast' = [pLast EXCEPT !.pc = "idle", !.result = result]
            /\ UNCHANGED <<now, pMem, pMeta, diskVars>>

\* Two clients of one class with different keys: the first is constructed on
\* the empty directory, the second at any time.
NextClients ==
    \/ \E t \in CMTasks, e \in Endpoints :
          /\ pipeCalls < MaxClientCalls
          /\ request(t, "GET", e, TRUE, FALSE, FALSE)
    \/ \E t \in CMTasks, reply \in ServerReplies(ClientKey) : transport_reply(t, reply)
    \/ \E t \in CMTasks : ClientCancel(t)
    \/ Peer_init /\ UNCHANGED <<lruVars, govVars, pipeVars, cmVars, retryVars, keyVars>>
    \/ \E e \in Endpoints :
          Peer_request(e) /\ UNCHANGED <<lruVars, govVars, pipeVars, cmVars, retryVars, keyVars>>
    \/ \E reply \in ServerReplies(PeerKey) :
          Peer_transport_reply(reply) /\ UNCHANGED <<lruVars, govVars, pipeVars, cmVars, retryVars, keyVars>>
    \/ TickPipe

\* Two DiskCache instances on one directory.
NextPeers ==
    \/ \E t \in CMTasks, k \in CMKeys, v \in Values :
          DiskCache_set(t, k, v) /\ UNCHANGED <<lruVars, govVars, pipeVars, cmVars, retryVars, keyVars, peerVars>>
    \/ \E t \in CMTasks, k \in CMKeys :
          DiskCache_get(t, k) /\ UNCHANGED <<lruVars, govVars, pipeVars, cmVars, retryVars, keyVars, peerVars>>
    \/ \E k \in CMKeys, v \in Values :
          Peer_set(k, v) /\ UNCHANGED <<lruVars, govVars, pipeVars, cmVars, retryVars, keyVars>>
    \/ \E k \in CMKeys :
          Peer_get(k) /\ UNCHANGED <<lruVars, govVars, pipeVars, cmVars, retryVars, keyVars>>
    \/ Peer_init /\ UNCHANGED <<lruVars, govVars, pipeVars, cmVars, retryVars, keyVars>>
    \/ DiskCache_init /\ UNCHANGED <<lruVars, govVars, pipeVars, cmVars, retryVars, keyVars, peerVars>>
    \/ TickDisk

\* ============================================================ async_retry
MaxRetryCount == 2
MaxBaseDelay == 2
MaxMaxDelay == 3
MaxBackoff == 2

\* What the retried operation can do at one invocation: return a result or
\* raise an exception.  "again" is a result the retry_on_result callback
\* answers True for.
Results == {"ok", "again"}
Exceptions == {"ConnectionError", "ValueError"}
DEFAULT_RETRY_EXCEPTIONS == {"ConnectionError"}
RetryArgs == {"x", "y"}

\* The retry_on_result callback of the caller.
RetryOnResult(result) == result = "again"

RECURSIVE Pow(_, _)
Pow(b, e) == IF e = 0 THEN 1 ELSE b * Pow(b, e - 1)

Min(a, b) == IF a <= b THEN a ELSE b

NoRetryCall ==
    [pc |-> "idle", retry_count |-> 0, base_delay |-> 0, max_delay |-> 0,
     backoff_factor |-> 0, retry_exceptions |-> {}, retry_on_result |-> FALSE,
     args |-> None, attempt |-> 0, log |-> <<>>, outcome |-> None, value |-> None]

\* One entry of the log: an invocation of func, what it did, or a sleep.
Event(ev, attempt, what, delay) ==
    [ev |-> ev, attempt |-> attempt, what |-> what, delay |-> delay]

\* delay = min(base_delay * (backoff_factor ** (attempt - 1)), max_delay)
Retry_delay_uncapped(r) == r.base_delay * Pow(r.backoff_factor, r.attempt - 1)

Retry_delay(r) ==
    Min(r.base_delay * Pow(r.backoff_factor, r.attempt - 1), r.max_delay)

\* attempt <= retry_count
MayRetry_strict(r) == r.attempt < r.retry_count

MayRetry(r) == r.attempt <= r.retry_count

\* retry_on_result and retry_on_result(result)
ShouldRetryResult_always(r, result) == TRUE

ShouldRetryResult(r, result) == r.retry_on_result /\ RetryOnResult(result)

\* except retry_exceptions
IsRetryException_any(r, exc) == TRUE

IsRetryException(r, exc) == exc \in r.retry_exceptions

\* attempt += 1; result = await func(*args, **kwargs)
Retry_invoke(r) ==
    [r EXCEPT !.pc = "calling", !.attempt = r.attempt + 1,
              !.log = Append(r.log, Event("call", r.attempt + 1, r.args, 0))]

\* await asyncio.sleep(delay)
Retry_sleep(r) ==
    [r EXCEPT !.pc = "sleeping",
              !.log = Append(r.log, Event("sleep", r.attempt, None, Retry_delay(r)))]

Retry_finish(r, outcome, value) ==
    [r EXCEPT !.pc = "done", !.outcome = outcome, !.value = value]

\* async_retry(func, *args, retry_count=..., ...): up to the first await.
async_retry(rc, bd, md, bf, rx, ror, args) ==
    /\ retry.pc = "idle"
    /\ LET r == [NoRetryCall EXCEPT !.retry_count = rc, !.base_delay = bd,
                                    !.max_delay = md, !.backoff_factor = bf,
                                    !.retry_exceptions = rx, !.retry_on_result = ror,
                                    !.args = args]
       IN  retry' = IF r.attempt <= r.retry_count THEN Retry_invoke(r)
                    ELSE Retry_finish(r, "returned", None)
    /\ UNCHANGED now

\* RetryConfig(...).retry(func, *args): async_retry with the stored settings.
RetryConfig_retry(config, args) ==
    async_retry(config.retry_count, config.base_delay, config.max_delay,
                config.backoff_factor, config.retry_exceptions,
                config.retry_on_result, args)

\* func returns result.
retry_func_return(result) ==
    /\ retry.pc = "calling"
    /\ LET r == [retry EXCEPT !.log = Append(retry.log,
                                   Event("return", retry.attempt, result, 0))]
       IN  retry' = IF ShouldRetryResult(r, result) /\ MayRetry(r)
                    THEN Retry_sleep(r)
                    ELSE Retry_finish(r, "returned", result)
    /\ UNCHANGED now

\* func raises exc.
retry_func_raise(exc) ==
    /\ retry.pc = "calling"
    /\ LET r == [retry EXCEPT !.log = Append(retry.log,
                                   Event("raise", retry.attempt, exc, 0))]
       IN  retry' = IF IsRetryException(r, exc) /\ MayRetry(r)
                    THEN Retry_sleep(r)
                    ELSE Retry_finish(r, "raised", exc)
    /\ UNCHANGED now

\* The sleep is over: the while condition, then the next invocation.
retry_sleep_done ==
    /\ retry.pc = "sleeping"
    /\ retry' = IF retry.attempt <= retry.retry_count THEN Retry_invoke(retry)
                 ELSE Retry_finish(retry, "returned", None)
    /\ UNCHANGED now

\* The task is cancelled: asyncio raises CancelledError at the await the loop
\* is at.  The call of func and the sleep after a result are inside the try
\* block, so the except clause tests the exception; the sleep of the except
\* block is outside it.
retry_cancel ==
    /\ retry.pc \in {"calling", "sleeping"}
    /\ LET exc == "CancelledError"
           inTry == \/ retry.pc = "calling"
                    \/ retry.log[Len(retry.log) - 1].ev = "return"
           r == [retry EXCEPT !.log = Append(retry.log,
                                   Event("cancel", retry.attempt, exc, 0))]
       IN  retry' = IF inTry /\ IsRetryException(r, exc) /\ MayRetry(r)
                    THEN Retry_sleep(r)
                    ELSE Retry_finish(r, "raised", exc)
    /\ UNCHANGED now

RetryConfigs ==
    [retry_count : 0..MaxRetryCount, base_delay : 1..MaxBaseDelay,
     max_delay : 1..MaxMaxDelay, backoff_factor : 1..MaxBackoff,
     retry_exceptions : {DEFAULT_RETRY_EXCEPTIONS, Exceptions},
     retry_on_result : BOOLEAN]

NextRetry ==
    \/ \E c \in RetryConfigs, args \in RetryArgs :
          /\ async_retry(c.retry_count, c.base_delay, c.max_delay, c.backoff_factor,
                         c.retry_exceptions, c.retry_on_result, args)
          /\ UNCHANGED <<lruVars, diskVars, govVars, pipeVars, cmVars, keyVars, peerVars>>
    \/ \E c \in RetryConfigs, args \in RetryArgs :
          /\ RetryConfig_retry(c, args)
          /\ UNCHANGED <<lruVars, diskVars, govVars, pipeVars, cmVars, keyVars, peerVars>>
    \/ \E result \in Results :
          /\ retry_func_return(result)
          /\ UNCHANGED <<lruVars, diskVars, govVars, pipeVars, cmVars, keyVars, peerVars>>
    \/ \E exc \in Exceptions :
          /\ retry_func_raise(exc)
          /\ UNCHANGED <<lruVars, diskVars, govVars, pipeVars, cmVars, keyVars, peerVars>>
    \/ retry_sleep_done /\ UNCHANGED <<lruVars, diskVars, govVars, pipeVars, cmVars, keyVars, peerVars>>

\* The retry executor in a task that its caller may cancel.
NextRetryCancel ==
    \/ NextRetry
    \/ retry_cancel /\ UNCHANGED <<lruVars, diskVars, govVars, pipeVars, cmVars, keyVars, peerVars>>

Init ==
    /\ now = 0
    /\ InitLRU
    /\ InitDisk
    /\ InitGov
    /\ pipe = [t \in Tasks |-> NoClientCall]
    /\ pipeCalls = 0
    /\ cmUseMem = TRUE
    /\ cmUseDisk = TRUE
    /\ cmLast = NoCacheCall
    /\ retry = NoRetryCall
    /\ keyCall = NoKeyCall
    /\ pMem = <<>>
    /\ pMeta = EmptyMap
    /\ pLast = NoPeerCall

SpecDisk == Init /\ [][NextDisk]_vars
SpecDiskFault == Init /\ [][NextDiskFault]_vars

SpecGov == Init /\ [][NextGov]_vars
SpecGovSave == Init /\ [][NextGovSave]_vars

SpecLRU == Init /\ [][NextLRU]_vars

SpecPipe == Init /\ [][NextPipe]_vars
SpecLimit == Init /\ [][NextLimit]_vars

SpecCM == Init /\ [][NextCM]_vars

SpecRetry == Init /\ [][NextRetry]_vars
SpecRetryCancel == Init /\ [][NextRetryCancel]_vars

SpecKey == Init /\ [][NextKey]_vars

SpecWindow == Init /\ [][NextWindow]_vars

SpecIso == Init /\ [][NextIso]_vars

SpecClients == Init /\ [][NextClients]_vars

SpecPeers == Init /\ [][NextPeers]_vars

\* ------------------------------------------------------ LRUCache claims
\* C5: the memory cache never stores more than max_size entries, after any
\* sequence of set, get, delete and clear.
C5_MemSizeBounded == Len(mem) <= MemMaxSize

\* A set has just inserted a new key into a full cache and evicted an entry.
C5_Witness ==
    /\ memLast.op = "set"
    /\ memLast.evicted # None
    /\ Len(mem) = MemMaxSize

\* C6: a set of a new key into a full cache removes exactly one entry, the one
\* whose most recent set or get-hit is the oldest, and keeps every other entry
\* with its value.
C6_EvictsLeastRecentlyUsed ==
    [][\A k \in Keys, v \in Values :
         (LRUCache_set(k, v) /\ k \notin SeqKeys(mem) /\ Len(mem) >= MemMaxSize) =>
            LET pos(j) == CHOOSE i \in 1..Len(memRecency) : memRecency[i] = j
                victim == CHOOSE j \in SeqKeys(mem) :
                             \A i \in SeqKeys(mem) : pos(j) <= pos(i)
            IN
            /\ victim \in SeqKeys(mem)
            /\ SeqKeys(mem') = (SeqKeys(mem) \ {victim}) \cup {k}
            /\ Len(mem') = Len(mem)
            /\ \A j \in SeqKeys(mem) \ {victim} :
                  /\ SeqEntry(mem', j) = SeqEntry(mem, j)
                  /\ LRU_get(mem', j, SeqEntry(mem, j).ts).hit
            /\ ~LRU_get(mem', victim, now).hit]_vars

\* A set evicted a key that was not the first one inserted: an earlier get-hit
\* or set had refreshed the first key, so a younger insertion was the victim.
C6_Witness ==
    /\ memLast.op = "set"
    /\ memLast.evicted # None
    /\ Len(memRecency) = Cardinality(Keys)
    /\ \E j \in SeqKeys(mem) : SeqEntry(mem, j).ts < now

\* C8: get of an entry older than ttl misses and removes it, get of an entry
\* of age at most ttl hits; an expired entry leaves the cache only through a
\* get of its key, a capacity eviction, delete or clear.
C8_LazyExpiry ==
    [][/\ \A k \in SeqKeys(mem) :
            LRUCache_get(k) =>
               IF now - SeqEntry(mem, k).ts > MemTtl
               THEN /\ ~memLast'.hit
                    /\ memLast'.value = None
                    /\ k \notin SeqKeys(mem')
               ELSE /\ memLast'.hit
                    /\ memLast'.value = SeqEntry(mem, k).value
                    /\ k \in SeqKeys(mem')
       /\ \A j \in SeqKeys(mem) :
            (now - SeqEntry(mem, j).ts > MemTtl /\ j \notin SeqKeys(mem')) =>
               \/ LRUCache_get(j)
               \/ LRUCache_delete(j)
               \/ LRUCache_clear
               \/ \E k \in Keys \ SeqKeys(mem), v \in Values :
                     LRUCache_set(k, v) /\ Len(mem) >= MemMaxSize]_vars

\* A get has just missed on an expired entry while the cache was not full.
C8_Witness ==
    /\ memLast.op = "get"
    /\ memLast.expired
    /\ ~memLast.hit
    /\ memLast.key \notin SeqKeys(mem)
    /\ Len(mem) < MemMaxSize - 1

\* ------------------------------------------------------- pipeline claims
\* C4: a call of BaseAPIClient.request or of a function wrapped by
\* ApiMonitorDecorator, made with monitoring and the limit check on while
\* check_limits reports a limit exceeded, returns the usage-limit failure at
\* once: no transport attempt, no cache lookup or write, no usage recorded,
\* and the monitor's counters and files and both cache tiers are unchanged.
C4_BlockedCallHasNoEffect ==
    [][\A t \in Tasks :
         LET limit == Gov_check_limits(usage, ClientService, now)
             blocked == /\ pipe'[t].pc = "idle"
                        /\ pipe'[t].outcome = "blocked"
                        /\ pipe'[t].result = LimitError(limit[2])
                        /\ pipe'[t].attempt = 0
                        /\ ~pipe'[t].looked
                        /\ ~pipe'[t].stored
                        /\ ~pipe'[t].recorded
                        /\ UNCHANGED <<usage, govFiles, mem, dMeta, dFiles, dIndexFile>>
         IN  /\ \A method \in Methods, e \in Endpoints, useCache \in BOOLEAN :
                   (limit[1] /\ request(t, method, e, useCache, TRUE, TRUE)) => blocked
             /\ \A e \in Endpoints \cup {"unknown"} :
                   (limit[1] /\ wrapper(t, e, TRUE)) => blocked]_vars

\* A cacheable GET has just been blocked although the memory cache holds its
\* response and calls have been recorded before.
C4_Witness ==
    \E t \in Tasks :
       /\ pipe[t].op = "request"
       /\ pipe[t].outcome = "blocked"
       /\ pipe[t].cached
       /\ CacheKey(pipe[t].method, pipe[t].endpoint) \in SeqKeys(mem)
       /\ ClientService \in DOMAIN usage
       /\ usage[ClientService].total_calls > 0

\* --------------------------------------------------- ApiMonitor claims
\* C1: every ApiMonitor call returns and leaves the monitor lock free: no task
\* is ever left suspended inside a call, waiting on the lock.
C1_GovernorCallsReturn ==
    /\ govLock = None
    /\ \A t \in Tasks : govTask[t] # "suspended"

\* C3: check_limits reports a limit exceeded exactly when some configured
\* kind has its counter at or above its threshold: the calls of the current
\* hour, day or month, the total calls, or the cost of the current month.
C3_ExceededAtThreshold ==
    [][\A t \in Tasks, s \in DOMAIN usage :
         check_limits(t, s) =>
            LET d == usage[s]
                calls(b, k) == IF k \in DOMAIN b THEN b[k].calls ELSE 0
                cost(b, k) == IF k \in DOMAIN b THEN b[k].cost ELSE 0
                atLimit(limit, n) == limit # NoLimit /\ n >= limit
            IN  govLast'.result[1] <=>
                   \/ atLimit(d.limits.hourly, calls(d.hourly_usage, HourKey(now)))
                   \/ atLimit(d.limits.daily, calls(d.daily_usage, DayKey(now)))
                   \/ atLimit(d.limits.monthly, calls(d.monthly_usage, MonthKey(now)))
                   \/ atLimit(d.limits.total, d.total_calls)
                   \/ atLimit(d.costs.monthly_budget,
                              cost(d.monthly_usage, MonthKey(now)))]_vars

\* ----------------------------------------------------- DiskCache claims
\* C2: every DiskCache call returns and releases the cache lock: no task is
\* ever left suspended inside get, set, delete, clear or get_stats, and the
\* lock is free whenever no call is running.
C2_DiskCallsReturn ==
    /\ dLock = None
    /\ \A t \in Tasks : dTask[t] # "suspended"

\* C7: read-your-writes on the disk tier: every set returns, and a get of the
\* same key right after set(k, v), with no time elapsed, returns (true, v).
C7_ReadYourWrites ==
    [][/\ \A t \in Tasks, k \in Keys, v \in Values :
            DiskCache_set(t, k, v) => dLast'.returned
       /\ \A t \in Tasks, k \in Keys :
            (DiskCache_get(t, k) /\ dLast.op = "set" /\ dLast.key = k
                                 /\ dLast.time = now) =>
               /\ dLast'.returned
               /\ dLast'.hit
               /\ dLast'.result = dLast.value]_vars

\* C9: a get of an index entry older than ttl returns a miss and leaves
\* neither the index entry nor the blob file, with the index persisted.
C9_DiskGetExpires ==
    [][\A t \in Tasks, k \in DOMAIN dMeta :
         (DiskCache_get(t, k) /\ now - dMeta[k].ts > DiskTtl) =>
            /\ dLast'.returned
            /\ ~dLast'.hit
            /\ k \notin DOMAIN dMeta'
            /\ dMeta[k].path \notin DOMAIN dFiles'
            /\ dIndexFile' = dMeta']_vars

\* C10: every set returns with its key in the index, no expired entry left
\* and at most max_size entries in the index.
C10_DiskSetBoundsIndex ==
    [][\A t \in Tasks, k \in Keys, v \in Values :
         DiskCache_set(t, k, v) =>
            /\ dLast'.returned
            /\ k \in DOMAIN dMeta'
            /\ DiskExpiredKeys(dMeta', now) = {}
            /\ Cardinality(DOMAIN dMeta') <= DiskMaxSize]_vars

\* C11: a fresh DiskCache on the directory of an instance whose calls have all
\* returned answers every get as that instance would at the same time: the
\* same hit or miss, the same value, the same suspension.
C11_DiskRestartSameAnswers ==
    [][(DiskCache_init /\ \A t \in Tasks : dTask[t] = "idle") =>
          \A k \in Keys :
             LET old == Disk_get(dMeta, dFiles, dIndexFile, k, now)
                 new == Disk_get(dMeta', dFiles', dIndexFile', k, now)
             IN  /\ new.hit = old.hit
                 /\ new.value = old.value
                 /\ new.at = old.at]_vars

\* A fresh instance has just been made on a directory that holds two live
\* entries, one of them written after a delete.
C11_Witness ==
    /\ dLast.op = "init"
    /\ Cardinality({k \in Keys : Disk_get(dMeta, dFiles, dIndexFile, k, now).hit}) = 2
    /\ \E k \in Keys : k \notin DOMAIN dMeta /\ PathOf(k) \notin DOMAIN dFiles


\* C12: a CacheManager.get with both tiers enabled returns the memory hit
\* without touching the disk tier; on a memory miss and a disk hit it returns
\* the disk value and the memory cache then hits k with that value; when both
\* tiers miss it returns a miss and every key answers in both tiers as before.
C12_ManagerGetTiers ==
    [][\A t \in CMTasks, k \in CMKeys :
          (cmUseMem /\ cmUseDisk /\ CacheManager_get(t, k)) =>
             LET m == LRU_get(mem, k, now)
                 d == Disk_get(dMeta, dFiles, dIndexFile, k, now)
             IN  /\ cmLast'.returned
                 /\ IF m.hit
                    THEN /\ cmLast'.hit /\ cmLast'.result = m.value
                         /\ UNCHANGED <<dMeta, dFiles, dIndexFile, dLock>>
                    ELSE IF d.hit
                    THEN /\ cmLast'.hit /\ cmLast'.result = d.value
                         /\ LRU_get(mem', k, now).hit
                         /\ LRU_get(mem', k, now).value = d.value
                    ELSE /\ ~cmLast'.hit
                         /\ dLock' = dLock
                         /\ \A j \in CMKeys :
                               LET m0 == LRU_get(mem, j, now)
                                   m1 == LRU_get(mem', j, now)
                                   d0 == Disk_get(dMeta, dFiles, dIndexFile, j, now)
                                   d1 == Disk_get(dMeta', dFiles', dIndexFile', j, now)
                               IN  /\ m1.hit = m0.hit /\ m1.value = m0.value
                                   /\ d1.hit = d0.hit /\ d1.value = d0.value]_vars

\* C13: CacheManager.set, delete and clear act on exactly the enabled tiers:
\* after set(k, v) every enabled tier answers (true, v) for k; delete(k)
\* returns true iff an enabled tier held k, and k then misses in every enabled
\* tier; a disabled tier is left as it was by set, delete, clear and get.
C13_ManagerEnabledTiers ==
    [][LET Frame == /\ ~cmUseMem => mem' = mem
                    /\ ~cmUseDisk => UNCHANGED <<dMeta, dFiles, dIndexFile, dLock>>
           MemAfter(k) == LRU_get(mem', k, now)
           DiskAfter(k) == Disk_get(dMeta', dFiles', dIndexFile', k, now)
       IN  \A t \in CMTasks :
             /\ \A k \in CMKeys, v \in Values :
                   CacheManager_set(t, k, v) =>
                      /\ cmLast'.returned
                      /\ cmUseMem => MemAfter(k).hit /\ MemAfter(k).value = v
                      /\ cmUseDisk => DiskAfter(k).hit /\ DiskAfter(k).value = v
                      /\ Frame
             /\ \A k \in CMKeys :
                   CacheManager_delete(t, k) =>
                      /\ cmLast'.returned
                      /\ cmLast'.hit = \/ cmUseMem /\ k \in SeqKeys(mem)
                                       \/ cmUseDisk /\ k \in DOMAIN dMeta
                      /\ cmUseMem => ~MemAfter(k).hit
                      /\ cmUseDisk => ~DiskAfter(k).hit
                      /\ Frame
             /\ CacheManager_clear(t) => cmLast'.returned /\ Frame
             /\ \A k \in CMKeys : CacheManager_get(t, k) => Frame]_vars

\* C14: an operation that fails m <= retry_count times (a listed exception
\* or a result retry_on_result accepts) and then succeeds is invoked exactly
\* m + 1 times with the arguments of the call, and the successful result is
\* returned: a success ends the call at once with its value, and the call
\* does not end on a failure while fewer than retry_count + 1 calls were made.
C14_RetryUntilSuccess ==
    LET IsCall(e) == e.ev = "call"
        IsOutcome(e) == e.ev \in {"return", "raise"}
        Failure(e) == \/ e.ev = "raise" /\ e.what \in retry.retry_exceptions
                      \/ e.ev = "return" /\ retry.retry_on_result /\ RetryOnResult(e.what)
        Success(e) == e.ev = "return" /\ ~Failure(e)
        calls == SelectSeq(retry.log, IsCall)
        outs == SelectSeq(retry.log, IsOutcome)
    IN  /\ \A i \in 1..Len(outs) :
              Success(outs[i]) =>
                 /\ i = Len(outs) /\ Len(calls) = i
                 /\ i - 1 <= retry.retry_count
                 /\ \A j \in 1..(i - 1) : Failure(outs[j])
                 /\ \A j \in 1..i : calls[j].what = retry.args /\ calls[j].attempt = j
                 /\ retry.pc = "done" /\ retry.outcome = "returned"
                 /\ retry.value = outs[i].what
        /\ (retry.pc = "done" /\ Len(outs) >= 1 /\ Len(outs) <= retry.retry_count)
              => ~Failure(outs[Len(outs)])

\* C14 witness: two failures, one raised and one returned, then a success
\* on the third invocation.
C14_Witness ==
    /\ retry.pc = "done" /\ retry.retry_count = 2 /\ Len(retry.log) = 8
    /\ retry.log[2].ev = "raise" /\ retry.log[5].ev = "return"
    /\ retry.log[5].what = "again" /\ retry.log[8].what = "ok"
    /\ retry.outcome = "returned" /\ retry.value = "ok"

\* C15: at most retry_count + 1 invocations are made; when every attempt
\* fails exactly retry_count + 1 are made, and then the last exception is
\* raised or the last result is returned as it is.
C15_AtMostRetryCountPlusOne ==
    LET IsCall(e) == e.ev = "call"
        IsOutcome(e) == e.ev \in {"return", "raise"}
        Failure(e) == \/ e.ev = "raise" /\ e.what \in retry.retry_exceptions
                      \/ e.ev = "return" /\ retry.retry_on_result /\ RetryOnResult(e.what)
        Success(e) == e.ev = "return" /\ ~Failure(e)
        calls == SelectSeq(retry.log, IsCall)
        outs == SelectSeq(retry.log, IsOutcome)
    IN  /\ Len(calls) <= retry.retry_count + 1
        /\ (retry.pc = "done" /\ \A i \in 1..Len(outs) : Failure(outs[i])) =>
              /\ Len(calls) = retry.retry_count + 1
              /\ Len(outs) = Len(calls)
              /\ LET last == outs[Len(outs)] IN
                 /\ last.ev = "raise" =>
                       retry.outcome = "raised" /\ retry.value = last.what
                 /\ last.ev = "return" =>
                       retry.outcome = "returned" /\ retry.value = last.what

\* C15 witness: three failing attempts with retry_count = 2, the last one
\* raising.
C15_Witness ==
    /\ retry.pc = "done" /\ retry.retry_count = 2 /\ Len(retry.log) = 8
    /\ retry.log[2].what = "again" /\ retry.log[5].ev = "raise"
    /\ retry.log[8].ev = "raise"
    /\ retry.outcome = "raised" /\ retry.value = "ConnectionError"

\* C16: exactly one sleep separates consecutive invocations, no sleep follows
\* the final one, and the sleep after failed attempt i lasts
\* min(base_delay * backoff_factor^(i-1), max_delay), after an exception
\* and after a result alike.
C16_BackoffSleeps ==
    LET log == retry.log
        Failure(e) == \/ e.ev = "raise" /\ e.what \in retry.retry_exceptions
                      \/ e.ev = "return" /\ retry.retry_on_result /\ RetryOnResult(e.what)
        Expected(a) == LET d == retry.base_delay * Pow(retry.backoff_factor, a - 1)
                       IN  IF d < retry.max_delay THEN d ELSE retry.max_delay
    IN  /\ \A i \in 1..Len(log) :
              /\ log[i].ev = "sleep" =>
                    /\ i > 1 /\ log[i - 1].ev \in {"return", "raise"}
                    /\ Failure(log[i - 1])
                    /\ log[i].delay = Expected(log[i - 1].attempt)
                    /\ IF i < Len(log) THEN log[i + 1].ev = "call"
                       ELSE retry.pc = "sleeping"
              /\ (log[i].ev = "call" /\ i > 1) =>
                    log[i - 1].ev = "sleep" /\ log[i].attempt = log[i - 1].attempt + 1
              /\ log[i].ev \in {"return", "raise"} =>
                    i > 1 /\ log[i - 1].ev = "call"
        /\ retry.pc = "done" => Len(log) >= 1 /\ log[Len(log)].ev \in {"return", "raise"}

\* C16 witness: a finished call with a sleep after an exception and a sleep
\* after a result, the second one cut to max_delay.
C16_Witness ==
    /\ retry.pc = "done" /\ Len(retry.log) = 8
    /\ retry.base_delay = 2 /\ retry.backoff_factor = 2 /\ retry.max_delay = 3
    /\ retry.log[2].ev = "raise" /\ retry.log[3].delay = 2
    /\ retry.log[5].ev = "return" /\ retry.log[6].delay = 3

\* C17: an exception that is not in retry_exceptions ends the call at once:
\* it is the last thing the call did, no sleep and no invocation follow it,
\* and it is raised to the caller.
C17_OtherExceptionsSurface ==
    \A i \in 1..Len(retry.log) :
       (retry.log[i].ev = "raise" /\ retry.log[i].what \notin retry.retry_exceptions) =>
          /\ i = Len(retry.log)
          /\ retry.pc = "done" /\ retry.outcome = "raised"
          /\ retry.value = retry.log[i].what

\* C17 witness: with retries left, the second invocation raises an exception
\* that is not listed.
C17_Witness ==
    /\ retry.pc = "done" /\ retry.retry_count = 2 /\ Len(retry.log) = 5
    /\ retry.retry_exceptions = DEFAULT_RETRY_EXCEPTIONS
    /\ retry.log[5].ev = "raise" /\ retry.log[5].what = "ValueError"
    /\ retry.outcome = "raised" /\ retry.value = "ValueError"

\* C18: check_limits returns the first kind, in the order hourly, daily,
\* monthly, total, budget, whose configured threshold is reached by its
\* counter, and (false, none) exactly when no configured threshold is
\* reached; a kind without a threshold is never returned.
C18_FirstLimitInOrder ==
    [][\A t \in Tasks, s \in DOMAIN usage :
         check_limits(t, s) =>
            LET d == usage[s]
                calls(b, k) == IF k \in DOMAIN b THEN b[k].calls ELSE 0
                cost(b, k) == IF k \in DOMAIN b THEN b[k].cost ELSE 0
                order == <<"hourly", "daily", "monthly", "total", "budget">>
                limit == <<d.limits.hourly, d.limits.daily, d.limits.monthly,
                           d.limits.total, d.costs.monthly_budget>>
                counter == <<calls(d.hourly_usage, HourKey(now)),
                             calls(d.daily_usage, DayKey(now)),
                             calls(d.monthly_usage, MonthKey(now)),
                             d.total_calls,
                             cost(d.monthly_usage, MonthKey(now))>>
                reached == {i \in 1..5 : limit[i] # NoLimit /\ counter[i] >= limit[i]}
            IN  govLast'.result =
                   IF reached = {} THEN <<FALSE, None>>
                   ELSE <<TRUE, order[CHOOSE i \in reached : \A j \in reached : i <= j]>>]_vars

\* C19: clear_usage_data leaves every service it resets (the named one, or
\* all of them) with zero calls, successes, errors and tokens, no hour, day or
\* month bucket and zero accumulated cost, and with the limits, cost_per_call
\* and monthly_budget it had before.
C19_ClearResetsRecord ==
    [][\A t \in Tasks, s \in Services \cup {None} :
         clear_usage_data(t, s) =>
            \A n \in DOMAIN usage :
               (s = None \/ n = s) =>
                  LET d == usage'[n] IN
                  /\ d.total_calls = 0 /\ d.success_count = 0 /\ d.error_count = 0
                  /\ d.total_tokens.total = 0 /\ d.total_tokens.prompt = 0
                  /\ d.total_tokens.completion = 0
                  /\ DOMAIN d.hourly_usage = {} /\ DOMAIN d.daily_usage = {}
                  /\ DOMAIN d.monthly_usage = {}
                  /\ d.costs.total_cost = 0
                  /\ d.limits = usage[n].limits
                  /\ d.costs.cost_per_call = usage[n].costs.cost_per_call
                  /\ d.costs.monthly_budget = usage[n].costs.monthly_budget]_vars

\* C20: a fresh ApiMonitor constructed on the data directory right after
\* save_data holds exactly the services that were present, each under its
\* own name with the same counts, token totals, buckets, limits and costs.
C20_SaveLoadRoundTrip ==
    [][(ApiMonitor_init /\ govFiles = Gov_save_data(usage, govFiles)) =>
          /\ DOMAIN usage' = DOMAIN usage
          /\ \A n \in DOMAIN usage :
                n \in DOMAIN usage' =>
                   /\ usage'[n].total_calls = usage[n].total_calls
                   /\ usage'[n].success_count = usage[n].success_count
                   /\ usage'[n].error_count = usage[n].error_count
                   /\ usage'[n].total_tokens = usage[n].total_tokens
                   /\ usage'[n].hourly_usage = usage[n].hourly_usage
                   /\ usage'[n].daily_usage = usage[n].daily_usage
                   /\ usage'[n].monthly_usage = usage[n].monthly_usage
                   /\ usage'[n].limits = usage[n].limits
                   /\ usage'[n].costs = usage[n].costs]_vars

\* C21: under every governor step that is not a clear_usage_data, no counter
\* of a service decreases: total_calls, success_count, error_count, the token
\* totals, total_cost, and the calls, success, errors and cost of every bucket
\* that exists before and after the step; a record_api_call raises total_calls
\* by exactly 1 and exactly one of success_count and error_count by 1.
C21_CountersMonotone ==
    [][usage' # usage =>
       LET Cleared == \E t \in Tasks, s \in Services \cup {None} : clear_usage_data(t, s)
           BucketsGrow(b0, b1, withCost) ==
               \A k \in (DOMAIN b0) \cap (DOMAIN b1) :
                  /\ b1[k].calls >= b0[k].calls
                  /\ b1[k].success >= b0[k].success
                  /\ b1[k].errors >= b0[k].errors
                  /\ withCost => b1[k].cost >= b0[k].cost
           Grown ==
               \A n \in DOMAIN usage :
                  /\ n \in DOMAIN usage'
                  /\ usage'[n].total_calls >= usage[n].total_calls
                  /\ usage'[n].success_count >= usage[n].success_count
                  /\ usage'[n].error_count >= usage[n].error_count
                  /\ usage'[n].total_tokens.prompt >= usage[n].total_tokens.prompt
                  /\ usage'[n].total_tokens.completion >= usage[n].total_tokens.completion
                  /\ usage'[n].total_tokens.total >= usage[n].total_tokens.total
                  /\ usage'[n].costs.total_cost >= usage[n].costs.total_cost
                  /\ BucketsGrow(usage[n].hourly_usage, usage'[n].hourly_usage, FALSE)
                  /\ BucketsGrow(usage[n].daily_usage, usage'[n].daily_usage, TRUE)
                  /\ BucketsGrow(usage[n].monthly_usage, usage'[n].monthly_usage, TRUE)
       IN  /\ Grown \/ Cleared
           /\ \A t \in Tasks, s \in Services, e \in Endpoints, c \in CallInputs :
                record_api_call(t, s, e, c.ok, c.tok, c.cost) =>
                   LET old == WithRecord(usage, s)[s]
                       new == usage'[s]
                   IN  /\ new.total_calls = old.total_calls + 1
                       /\ new.success_count = old.success_count + (IF c.ok THEN 1 ELSE 0)
                       /\ new.error_count = old.error_count + (IF c.ok THEN 0 ELSE 1)
                       /\ new.success_count + new.error_count
                             = old.success_count + old.error_count + 1]_vars

\* C21 witness: a success and a failure were recorded and a prune_old_data
\* then deleted every hour bucket; the totals are those of the two calls.
C21_Witness ==
    /\ "s1" \in DOMAIN usage
    /\ usage["s1"].total_calls = 2
    /\ usage["s1"].success_count = 1 /\ usage["s1"].error_count = 1
    /\ usage["s1"].costs.total_cost = 1
    /\ DOMAIN usage["s1"].hourly_usage = {}
    /\ DOMAIN usage["s1"].monthly_usage # {}

\* C22: a request() with monitoring on that passed the preflight records
\* exactly one usage event: the total of recorded calls grows only in the
\* step in which a call records, by exactly 1, no call records twice, and a
\* call that has ended or waits inside a cache or monitor call has recorded.
C22_RecordedExactlyOnce ==
    [][LET Total(u) == IF ClientService \in DOMAIN u THEN u[ClientService].total_calls
                       ELSE 0
           Recording == {t \in Tasks : /\ pipe'[t] # pipe[t] /\ pipe'[t].recorded
                                        /\ (pipe[t].pc = "idle" \/ ~pipe[t].recorded)}
       IN  /\ Total(usage') = Total(usage) + Cardinality(Recording)
           /\ \A t \in Tasks :
                 /\ (/\ pipe'[t] # pipe[t] /\ pipe[t].pc # "idle"
                     /\ pipe[t].recorded /\ pipe'[t].recorded)
                       => pipe'[t].pc = "idle"
                 /\ (/\ pipe'[t].op = "request" /\ pipe'[t].monitor
                     /\ pipe'[t].outcome # "blocked"
                     /\ pipe'[t].pc \in {"idle", "suspended"})
                       => pipe'[t].recorded]_vars

\* C23: every entry of the client's memory and disk cache is a successful
\* result stored under the key of a GET; the cache changes only in a step of
\* a GET made with caching on; a final failure leaves both tiers as they
\* were; a call that is not a GET or has use_cache off never looks up or
\* stores.
C23_OnlySuccessfulGetsCached ==
    [][LET GetKeys == {CacheKey("GET", e) : e \in Endpoints}
           Successes == {Request_impl(r) : r \in {x \in Replies : x.kind = "ok"}}
           tiers == <<mem, dMeta, dFiles, dIndexFile>>
       IN  /\ \A i \in 1..Len(mem') :
                 mem'[i].key \in GetKeys /\ mem'[i].value \in Successes
           /\ \A k \in DOMAIN dMeta' : k \in GetKeys
           /\ \A k \in DOMAIN dIndexFile' : k \in GetKeys
           /\ \A f \in DOMAIN dFiles' : Unpickle(dFiles'[f]) \in Successes
           /\ tiers' # tiers =>
                 \E t \in Tasks : /\ pipe'[t] # pipe[t]
                                   /\ pipe'[t].cached /\ pipe'[t].method = "GET"
           /\ \A t \in Tasks :
                 /\ ~pipe'[t].cached => ~pipe'[t].looked /\ ~pipe'[t].stored
                 /\ \A reply \in Replies :
                       (transport_reply(t, reply) /\ ~Request_impl(reply)[1])
                          => tiers' = tiers /\ ~pipe'[t].stored]_vars

\* C23 witness: a cached GET ended in a failure after its retries with both
\* tiers empty, and a successful POST ended without touching the cache.
C23_Witness ==
    \E t, o \in Tasks :
       /\ pipe[t].pc = "idle" /\ pipe[t].cached /\ pipe[t].looked
       /\ pipe[t].outcome = "returned" /\ ~pipe[t].result[1]
       /\ pipe[t].attempt = RetryCount + 1
       /\ pipe[o].pc = "idle" /\ pipe[o].method = "POST"
       /\ pipe[o].outcome = "returned" /\ pipe[o].result[1]
       /\ mem = <<>> /\ DOMAIN dMeta = {} /\ DOMAIN dFiles = {}

\* C24: a transport outcome with retries left is tried again exactly when it
\* is a network failure, a timeout, HTTP 429 or an HTTP 5xx; any other
\* failure ends the call after its first attempt.
C24_RetriedIffTransient ==
    [][\A t \in Tasks, reply \in Replies :
          LET Transient ==
                  \/ reply.kind \in {"network", "timeout"}
                  \/ reply.kind = "status" /\ (reply.code = 429 \/ reply.code \in 500..599)
              Retried == pipe'[t].pc = "transport" /\ pipe'[t].attempt = pipe[t].attempt + 1
          IN  (transport_reply(t, reply) /\ pipe[t].attempt <= RetryCount)
                 => (Retried <=> Transient)]_vars

\* C25: the key is a function of the upper-cased method, the endpoint and the
\* set of parameter pairs: a call with the same components has the same key,
\* and a call that differs in one of them has a different key.
C25_KeyOfComponents ==
    keyCall.key # <<>> =>
       \A method \in KeyMethods, endpoint \in KeyEndpoints, params \in KeyParams :
          LET Pairs(p) == {p[i] : i \in DOMAIN p}
              same == /\ Upper(method) = Upper(keyCall.method)
                      /\ endpoint = keyCall.endpoint
                      /\ Pairs(params) = Pairs(keyCall.params)
          IN  same <=> build_cache_key(method, endpoint, params) = keyCall.key

\* C26: whatever another task can observe of the governor (the usage data
\* under the lock, the files save_data wrote, the statistics get_usage_stats
\* returned) holds only whole calls: every counter triple has calls = success
\* + errors, the endpoints of an hourly bucket add up to the bucket, and the
\* monthly buckets add up to the totals of the record.
C26_WholeCallsObserved ==
    LET Triple(c) == c.calls = c.success + c.errors
        Whole(d) ==
            /\ d.total_calls = d.success_count + d.error_count
            /\ \A k \in DOMAIN d.hourly_usage :
                  LET h == d.hourly_usage[k]
                  IN  /\ Triple(h)
                      /\ \A e \in DOMAIN h.endpoints : Triple(h.endpoints[e])
                      /\ SumOver([e \in DOMAIN h.endpoints |-> h.endpoints[e].calls],
                                 DOMAIN h.endpoints) = h.calls
            /\ \A k \in DOMAIN d.daily_usage : Triple(d.daily_usage[k])
            /\ \A k \in DOMAIN d.monthly_usage : Triple(d.monthly_usage[k])
            /\ SumOver([k \in DOMAIN d.monthly_usage |-> d.monthly_usage[k].calls],
                       DOMAIN d.monthly_usage) = d.total_calls
            /\ SumOver([k \in DOMAIN d.monthly_usage |-> d.monthly_usage[k].success],
                       DOMAIN d.monthly_usage) = d.success_count
            /\ SumOver([k \in DOMAIN d.monthly_usage |-> d.monthly_usage[k].tokens.total],
                       DOMAIN d.monthly_usage) = d.total_tokens.total
    IN  /\ \A n \in DOMAIN usage : Whole(usage[n])
        /\ \A f \in DOMAIN govFiles : Whole(FromJson(govFiles[f]))
        /\ (govLast.op = "get_usage_stats" /\ govLast.service \in DOMAIN usage) =>
              LET r == govLast.result
              IN  /\ r.total_calls = r.success_count + r.error_count
                  /\ r.today.calls <= r.this_month.calls
                  /\ r.this_month.calls <= r.total_calls

\* C26 witness: save_data ran between two recorded calls and get_usage_stats
\* ran after the second.
C26_Witness ==
    /\ "s1" \in DOMAIN usage /\ usage["s1"].total_calls = 2
    /\ usage["s1"].success_count = 1
    /\ \E f \in DOMAIN govFiles : FromJson(govFiles[f]).total_calls = 1
    /\ govLast.op = "get_usage_stats" /\ govLast.service = "s1"
    /\ govLast.result.total_calls = 2
    /\ govLock = None

\* C27: a cancellation ends the retry loop: it is the last entry of the log
\* (func is not invoked and nothing is slept after it), the loop has ended by
\* raising CancelledError, and no cache or governor lock is held.
C27_CancelStopsRetry ==
    \A i \in DOMAIN retry.log :
       retry.log[i].ev = "cancel" =>
          /\ i = Len(retry.log)
          /\ retry.pc = "done"
          /\ retry.outcome = "raised" /\ retry.value = "CancelledError"
          /\ dLock = None /\ govLock = None

\* C27 witness: the task was cancelled in a back-off sleep with retries left.
C27_Witness ==
    /\ Len(retry.log) >= 3
    /\ retry.log[Len(retry.log)].ev = "cancel"
    /\ retry.log[Len(retry.log) - 1].ev = "sleep"
    /\ retry.attempt <= retry.retry_count
    /\ retry.pc = "done"

C29_FailOpen ==
    /\ dLast.raised = None
    /\ (dLast.op = "get" /\ dLast.hit) => dLast.result \in FaultValues \ Unpicklable

\* C30: after the preflight the steps of a client call happen in the order
\* CACHE_LOOKUP, EXECUTE, RECORD, CACHE_STORE: the usage event is recorded
\* before the result is written to the cache.
C30_RecordBeforeStore ==
    LET Rank(x) == CASE x = "CACHE_LOOKUP" -> 2 [] x = "EXECUTE" -> 3
                     [] x = "RECORD" -> 4 [] x = "CACHE_STORE" -> 5
    IN  \A t \in Tasks :
           pipe[t].op = "request" =>
              \A i, j \in DOMAIN pipe[t].steps :
                 i < j => Rank(pipe[t].steps[i]) < Rank(pipe[t].steps[j])

\* C31: with an hourly limit configured before the first call, the calls
\* recorded in the current hour bucket never exceed the limit.
C31_HourlyLimitHolds ==
    (ClientService \in DOMAIN usage /\ usage[ClientService].limits.hourly # NoLimit) =>
       LET d == usage[ClientService] IN
       HourKey(now) \in DOMAIN d.hourly_usage =>
          d.hourly_usage[HourKey(now)].calls <= d.limits.hourly

\* C32: when each of two DiskCache instances on one directory has completed
\* a set, on different keys, a DiskCache constructed on the directory finds
\* both keys in the index it loads.
C32_BothEntriesKept ==
    (/\ dLast.op = "set" /\ dLast.returned
     /\ pLast.op = "set" /\ pLast.pc = "idle"
     /\ dLast.key # pLast.key) =>
       {dLast.key, pLast.key} \subseteq DOMAIN Disk_load_metadata(dIndexFile)

\* C33: LRUCache.set on a key that is already cached evicts nothing, also
\* in a full cache: the other entries stay as they are and in their order,
\* and the key's entry, with the new value and the time of the call, is the
\* last (most recently used) one.
C33_ReplaceEvictsNothing ==
    [][(memLast'.op = "set" /\ now' = now /\ memLast'.key \in SeqKeys(mem)) =>
          /\ SeqKeys(mem') = SeqKeys(mem)
          /\ SeqRemove(mem', memLast'.key) = SeqRemove(mem, memLast'.key)
          /\ mem'[Len(mem')] = [key |-> memLast'.key, value |-> memLast'.value,
                                ts |-> now]]_vars

\* A set has just replaced the entry of a cached key in a full cache.
C33_Witness ==
    /\ memLast.op = "set" /\ memLast.replaced
    /\ Len(mem) = MemMaxSize
    /\ memLast.evicted = None

\* C34: the timestamp of an entry that stays cached changes only in a set of
\* its key or in a get of its key that hits in the disk cache, and then to
\* the time of the call; a get that hits in the memory cache leaves the
\* entry's timestamp and makes the entry the most recent one; a get that
\* hits in the disk cache stamps the disk entry with the time of the call.
C34_TimestampFrame ==
    [][LET k == cmLast'.key
           memHit == cmUseMem /\ LRU_get(mem, k, now).hit
           stamping == \/ cmLast'.op = "set"
                       \/ cmLast'.op = "get" /\ cmLast'.hit /\ ~memHit
       IN
       /\ \A j \in SeqKeys(mem) \cap SeqKeys(mem') :
             SeqEntry(mem', j).ts # SeqEntry(mem, j).ts =>
                /\ stamping /\ j = k /\ cmUseMem
                /\ SeqEntry(mem', j).ts = now
       /\ \A j \in DOMAIN dMeta \cap DOMAIN dMeta' :
             dMeta'[j].ts # dMeta[j].ts =>
                /\ stamping /\ j = k /\ cmUseDisk
                /\ dMeta'[j].ts = now
       /\ (cmLast'.op = "get" /\ now' = now /\ dTask' = dTask /\ cmLast'.hit) =>
             IF memHit
             THEN /\ SeqEntry(mem', k).ts = SeqEntry(mem, k).ts
                  /\ mem'[Len(mem')].key = k
                  /\ dMeta' = dMeta
             ELSE dMeta'[k].ts = now]_vars

\* A get has hit in the memory cache after the clock moved on: the memory
\* entry is older than the clock and is the most recent one of a full cache.
C34_Witness ==
    /\ cmLast.op = "get" /\ cmLast.hit /\ cmUseMem
    /\ Len(mem) = MemMaxSize
    /\ mem[Len(mem)].key = cmLast.key
    /\ mem[Len(mem)].ts < mem[1].ts

\* C35: on a single DiskCache without I/O faults the index and the blob
\* files agree: every indexed key has its blob file, every blob file belongs
\* to an indexed key, and metadata.json holds the index that is in memory.
C35_IndexAndBlobsAgree ==
    /\ \A k \in DOMAIN dMeta : dMeta[k].path \in DOMAIN dFiles
    /\ \A p \in DOMAIN dFiles : \E k \in DOMAIN dMeta : dMeta[k].path = p
    /\ Disk_load_metadata(dIndexFile) = dMeta

\* A delete has removed one of two cached entries.
C35_Witness ==
    /\ dLast.op = "delete" /\ dLast.hit /\ dLast.returned
    /\ Cardinality(DOMAIN dMeta) = 1
    /\ Cardinality(DOMAIN dFiles) = 1
    /\ dLast.key \notin DOMAIN dMeta

\* C36: in every service record the total is the successes plus the errors,
\* every hour, day and month bucket has calls = success + errors, every hour
\* bucket's calls are the sum of its endpoints' calls, and every endpoint has
\* calls = success + errors.
C36_CountersAddUp ==
    \A n \in DOMAIN usage :
       LET d == usage[n] IN
       /\ d.total_calls = d.success_count + d.error_count
       /\ \A b \in {d.hourly_usage, d.daily_usage, d.monthly_usage} :
             \A k \in DOMAIN b : b[k].calls = b[k].success + b[k].errors
       /\ \A k \in DOMAIN d.hourly_usage :
             LET ep == d.hourly_usage[k].endpoints IN
             /\ d.hourly_usage[k].calls =
                   SumOver([e \in DOMAIN ep |-> ep[e].calls], DOMAIN ep)
             /\ \A e \in DOMAIN ep : ep[e].calls = ep[e].success + ep[e].errors

\* One hour bucket holds a success on one endpoint and an error on the other.
C36_Witness ==
    \E n \in DOMAIN usage : \E k \in DOMAIN usage[n].hourly_usage :
       LET h == usage[n].hourly_usage[k] IN
       /\ h.calls = 2 /\ h.success = 1 /\ h.errors = 1
       /\ DOMAIN h.endpoints = IsoEndpoints

\* C37: record_api_call, set_limit, set_cost_info and clear_usage_data for a
\* service leave the record of every other service as it is and create none
\* for it; check_limits and get_usage_stats change and create no record, and
\* check_limits for a service without a record returns (False, None).
C37_ServiceIsolation ==
    [][/\ \A t \in IsoTasks, s \in IsoServices :
             (\/ \E e \in IsoEndpoints, ok \in BOOLEAN :
                    record_api_call(t, s, e, ok, EmptyMap, 0)
              \/ \E v \in {NoLimit, MaxLimit} : set_limit(t, s, "total", v)
              \/ set_cost_info(t, s, NoLimit, MaxLimit)
              \/ clear_usage_data(t, s)) =>
                \A n \in IsoServices \ {s} :
                   /\ n \in DOMAIN usage' <=> n \in DOMAIN usage
                   /\ n \in DOMAIN usage => usage'[n] = usage[n]
       /\ \A t \in IsoTasks, s \in IsoServices :
             (check_limits(t, s) \/ get_usage_stats(t, s)) =>
                /\ usage' = usage
                /\ (govLast'.op = "check_limits" /\ s \notin DOMAIN usage) =>
                      govLast'.result = <<FALSE, None>>]_vars

\* Both services have a recorded call, one of them has a limit, and a
\* check of the other one was answered.
C37_Witness ==
    /\ DOMAIN usage = IsoServices
    /\ usage["s1"].total_calls = 1
    /\ usage["s2"].total_calls = 1
    /\ usage["s2"].limits.total = MaxLimit
    /\ govLast.op = "check_limits" /\ govLast.service = "s1"
    /\ govLast.result = <<FALSE, None>>

\* C38: when check_limits has reported the hourly (daily, monthly) limit and
\* the clock moves into another hour (day, month) with no call recorded
\* since, check_limits no longer reports that limit; when it has reported
\* the total limit, it reports the total limit at the later time as well.
C38_WindowLimitsExpire ==
    [][(/\ govLast.op = "check_limits" /\ govLast.result[1]
        /\ now' # now /\ usage' = usage) =>
          LET kind == govLast.result[2]
              r == Gov_check_limits(usage, govLast.service, now')
          IN  /\ (kind = "hourly" /\ HourKey(now') # HourKey(now)) => r[2] # "hourly"
              /\ (kind = "daily" /\ DayKey(now') # DayKey(now)) => r[2] # "daily"
              /\ (kind = "monthly" /\ MonthKey(now') # MonthKey(now)) => r[2] # "monthly"
              /\ kind = "total" => r = <<TRUE, "total">>]_vars

\* check_limits reported the monthly limit and the clock is in a month in
\* which no call was recorded.
C38_Witness ==
    /\ govLast.op = "check_limits" /\ govLast.result = <<TRUE, "monthly">>
    /\ MonthKey(now) \notin DOMAIN usage[govLast.service].monthly_usage

\* C39: a set whose blob write fails leaves the cache as it was: the index
\* in memory and metadata.json are unchanged, and a key that get would have
\* returned before the set is still returned with the same value.
C39_FailedSetKeepsEntry ==
    [][\A t \in FaultTasks, k \in FaultKeys, v \in Unpicklable :
          DiskCache_set(t, k, v) =>
             /\ dMeta' = dMeta /\ dIndexFile' = dIndexFile
             /\ LET before == Disk_get(dMeta, dFiles, dIndexFile, k, now)
                     after == Disk_get(dMeta', dFiles', dIndexFile', k, now)
                 IN  before.hit =>
                        /\ after.hit /\ after.raised = None
                        /\ after.value = before.value]_vars

\* C40: what a client gets from its cache was answered to a request sent
\* with its own api_key: a cached response is never returned to a client of
\* the same class that was constructed with another api_key.
C40_CacheKeptPerCredentials ==
    /\ (pLast.op = "request" /\ pLast.hit) =>
          pLast.result[2].body = BodyFor(PeerKey)
    /\ \A t \in CMTasks :
          (pipe[t].op = "request" /\ pipe[t].outcome = "returned" /\ pipe[t].attempt = 0) =>
             pipe[t].result[2].body = BodyFor(ClientKey)
====
